---- MODULE Spec2Model ----
(***************************************************************************)
(* Matchmaking session engine of slippi-rust-extensions: the session       *)
(* coordinator (NetplayManager), the per-generation handoff cells          *)
(* (AtomicState, OnceValue) and the matchmaking worker (matchmaking::run). *)
(***************************************************************************)
EXTENDS Integers, Sequences, FiniteSets, TLC

\* Number of find_match calls explored (one generation of cells per call).
MaxGen == 2

Gens == 1..MaxGen

\* Option<T>: None is the empty tuple, Some(v) the one-element tuple.
None == <<>>
Some(v) == <<v>>

(***************************************************************************)
(* NetplayState and its i8 encoding (state.rs).                            *)
(***************************************************************************)
NetplayState ==
    {"Idle", "Initializing", "Matchmaking", "OpponentConnecting",
     "ConnectionSuccess", "ErrorEncountered"}

to_i8(s) ==
    CASE s = "Idle" -> 0
      [] s = "Initializing" -> 1
      [] s = "Matchmaking" -> 2
      [] s = "OpponentConnecting" -> 3
      [] s = "ConnectionSuccess" -> 4
      [] s = "ErrorEncountered" -> 5

from_i8(value) ==
    CASE value = 0 -> "Idle"
      [] value = 1 -> "Initializing"
      [] value = 2 -> "Matchmaking"
      [] value = 3 -> "OpponentConnecting"
      [] value = 4 -> "ConnectionSuccess"
      [] value = 5 -> "ErrorEncountered"

\* AtomicState::new / set store the i8 encoding; get decodes it.
AtomicState_new(state) == to_i8(state)
AtomicState_get(inner) == from_i8(inner)

\* OnceValue::new is the unset cell; set keeps the first value.
OnceValue_new == None
\* Variant of OnceValue::set: the value of the last call is the one kept.
OnceValue_set_last(cell, value) == Some(value)

OnceValue_set(cell, value) == IF cell = None THEN Some(value) ELSE cell
OnceValue_get(cell) == cell

(***************************************************************************)
(* Stage table (context.rs).                                               *)
(***************************************************************************)
\* Variant of Stage::from: the ids of Battlefield and FinalDestination are
\* exchanged.
Stage_from_swapped(val) ==
    CASE val = 3 -> Some("PokemonStadium")
      [] val = 8 -> Some("YoshisStory")
      [] val = 28 -> Some("Dreamland")
      [] val = 32 -> Some("Battlefield")
      [] val = 31 -> Some("FinalDestination")
      [] val = 2 -> Some("FountainOfDreams")
      [] OTHER -> None

Stage_from(val) ==
    CASE val = 3 -> Some("PokemonStadium")
      [] val = 8 -> Some("YoshisStory")
      [] val = 28 -> Some("Dreamland")
      [] val = 31 -> Some("Battlefield")
      [] val = 32 -> Some("FinalDestination")
      [] val = 2 -> Some("FountainOfDreams")
      [] OTHER -> None

Stage ==
    {"PokemonStadium", "YoshisStory", "Dreamland", "Battlefield",
     "FinalDestination", "FountainOfDreams"}

to_u16(stage) ==
    CASE stage = "PokemonStadium" -> 3
      [] stage = "YoshisStory" -> 8
      [] stage = "Dreamland" -> 28
      [] stage = "Battlefield" -> 31
      [] stage = "FinalDestination" -> 32
      [] stage = "FountainOfDreams" -> 2

MatchContext_default ==
    [id |-> <<>>, local_player_index |-> 0, players |-> <<>>,
     stages |-> <<>>, remote_addrs |-> <<>>, is_host |-> FALSE]

(***************************************************************************)
(* Wire values.  A string the code searches by substring is a sequence of  *)
(* segments; a socket address string is parsed by table over the strings   *)
(* that occur in the sample responses.                                     *)
(***************************************************************************)
CREATE_TICKET_RESP == "create-ticket-resp"
GET_TICKET_RESP == "get-ticket-resp"

contains(text, pat) == \E i \in 1..Len(text) : text[i] = pat

\* str::parse::<SocketAddr>: Some([ip, port]) or None on AddrParseError.
parse(s) ==
    CASE s = "1.2.3.4:41000" -> Some([ip |-> "1.2.3.4", port |-> 41000])
      [] s = "1.2.3.4:41001" -> Some([ip |-> "1.2.3.4", port |-> 41001])
      [] s = "5.6.7.8:41000" -> Some([ip |-> "5.6.7.8", port |-> 41000])
      [] s = "192.168.0.2:41001" -> Some([ip |-> "192.168.0.2", port |-> 41001])
      [] OTHER -> None

\* Number of chat messages a player entry must carry to be kept.
CHAT_LEN == 16

\* slippi_user::chat::default(): the 16-slot default palette.
chat_default == [i \in 1..CHAT_LEN |-> "default"]

\* usize subtraction.  With overflow checks the caller panics before this
\* is evaluated; without them the result wraps modulo 2^64, and the residue
\* is written by its representative nearest zero (usize::MAX is -1).
wrapping_sub(a, b) == a - b

(***************************************************************************)
(* Results and errors.  Result<T, E> is [ok, val]: val is the value when   *)
(* ok and the error [kind, inner] otherwise.  The outcome of receive is    *)
(* [ok, err, val]: err names the ReceiveError, val holds the decoded       *)
(* message.                                                                *)
(***************************************************************************)
Ok(v) == [ok |-> TRUE, val |-> v]
Err(kind, inner) == [ok |-> FALSE, val |-> [kind |-> kind, inner |-> inner]]
Error(kind, inner) == [kind |-> kind, inner |-> inner]

ReceiveError == {"HostRead", "Deserialize", "Disconnect", "Timeout", "Utf8Read"}

ConnectError ==
    {"ServerLookup", "NoValidServerAddr", "SocketBind", "SocketPortCheck",
     "HostNew", "NoAvailablePeers", "HostRead", "UnableToConnect"}

\* set_init_error: the user-facing text of a SubmitTicketError.
set_init_error(error) ==
    CASE error.kind = "Connect" /\ error.inner = "ServerLookup" -> "Failed to find mm server"
      [] error.kind = "Connect" /\ error.inner = "NoValidServerAddr" -> "Failed to route to mm server"
      [] error.kind = "Connect" /\ error.inner \in {"HostNew", "SocketBind", "SocketPortCheck"} ->
            "Failed to create mm client"
      [] error.kind = "Connect" /\ error.inner \in {"NoAvailablePeers", "HostRead", "UnableToConnect"} ->
            "Failed to start connection to mm server"
      [] error.kind = "LanAddrLookup" -> "Unable to determine IP addr"
      [] error.kind = "InvalidBody" -> "Failed to submit to mm queue"
      [] error.kind = "Receive" -> "Failed to join mm queue"
      [] error.kind = "InvalidResponse" -> "Invalid response from mm queue"
      [] error.kind = "Server" -> error.inner

\* Variant of set_matchmake_error: a server error gets a fixed text.
set_matchmake_error_fixed(error) ==
    CASE error.kind = "Receive" /\ error.inner = "Disconnect" -> "Lost connection to the mm server"
      [] error.kind = "Receive" /\ error.inner # "Disconnect" -> "Failed to receive mm status"
      [] error.kind = "InvalidResponse" -> "Invalid response when getting mm status"
      [] error.kind = "Server" -> "Error from server"
      [] error.kind = "InvalidAddr" -> "Invalid response from mm"

\* set_matchmake_error: the user-facing text of a CheckTicketError.
set_matchmake_error(error) ==
    CASE error.kind = "Receive" /\ error.inner = "Disconnect" -> "Lost connection to the mm server"
      [] error.kind = "Receive" /\ error.inner # "Disconnect" -> "Failed to receive mm status"
      [] error.kind = "InvalidResponse" -> "Invalid response when getting mm status"
      [] error.kind = "Server" -> error.inner
      [] error.kind = "InvalidAddr" -> "Invalid response from mm"

(***************************************************************************)
(* submit_ticket.  The network's part is the input: the outcome of         *)
(* connect_to_mm, of determine_lan_addr and of receive(5000).  The result  *)
(* is Ok("host") when a connected host is returned.                        *)
(***************************************************************************)
\* Variant of submit_ticket: the error field is looked at before the
\* discriminator.
submit_ticket_error_first(net) ==
    IF net.connect # "Ok" THEN Err("Connect", net.connect)
    ELSE IF ~net.lan_ok THEN Err("LanAddrLookup", "io")
    ELSE IF ~net.recv.ok THEN Err("Receive", net.recv.err)
    ELSE LET response == net.recv.val[1] IN
         IF response.error # None THEN Err("Server", response.error[1])
         ELSE IF response.kind # CREATE_TICKET_RESP THEN Err("InvalidResponse", response.kind)
         ELSE Ok("host")

submit_ticket(net) ==
    IF net.connect # "Ok" THEN Err("Connect", net.connect)
    ELSE IF ~net.lan_ok THEN Err("LanAddrLookup", "io")
    ELSE IF ~net.recv.ok THEN Err("Receive", net.recv.err)
    ELSE LET response == net.recv.val[1] IN
         IF response.kind # CREATE_TICKET_RESP THEN Err("InvalidResponse", response.kind)
         ELSE IF response.error # None THEN Err("Server", response.error[1])
         ELSE Ok("host")

(***************************************************************************)
(* check_ticket.  recv is the outcome of receive::<TicketResponse>(2000),  *)
(* checks tells whether the build panics on integer overflow.  The result  *)
(* is [tag, val, overwrite]: tag "Ok" with val the Option<MatchContext>,   *)
(* tag "Err" with val the CheckTicketError, or tag "Panic"; overwrite is   *)
(* the version handed to UserManager::overwrite_latest_version, if any.    *)
(***************************************************************************)
Outcome(tag, val, overwrite) == [tag |-> tag, val |-> val, overwrite |-> overwrite]

\* Variant of players_pass: only an empty chat-message list is replaced by
\* the default one.
RECURSIVE players_pass_empty_only(_, _, _, _)
players_pass_empty_only(players, i, acc, checks) ==
    IF acc.st # "run" \/ i > Len(players) THEN acc
    ELSE LET player == players[i]
             addr == parse(player.ip_address)
             located ==
                 IF ~player.is_local THEN acc
                 ELSE IF addr = None THEN [acc EXCEPT !.st = "InvalidAddr"]
                 ELSE IF player.port = 0 /\ checks THEN [acc EXCEPT !.st = "Panic"]
                 ELSE [acc EXCEPT !.local_external_ip = addr[1],
                                  !.context.local_player_index = wrapping_sub(player.port, 1)]
             chat_messages ==
                 IF Len(player.chat_messages) = 0 THEN chat_default
                 ELSE player.chat_messages
             pushed ==
                 IF located.st # "run" THEN located
                 ELSE [located EXCEPT !.context.players =
                          Append(@, [display_name |-> player.display_name,
                                     chat_messages |-> chat_messages,
                                     port |-> player.port])]
         IN players_pass_empty_only(players, i + 1, pushed, checks)

\* First loop over the players (lines 610-630): finds the local player and
\* pushes every player into the context.
RECURSIVE players_pass(_, _, _, _)
players_pass(players, i, acc, checks) ==
    IF acc.st # "run" \/ i > Len(players) THEN acc
    ELSE LET player == players[i]
             addr == parse(player.ip_address)
             located ==
                 IF ~player.is_local THEN acc
                 ELSE IF addr = None THEN [acc EXCEPT !.st = "InvalidAddr"]
                 ELSE IF player.port = 0 /\ checks THEN [acc EXCEPT !.st = "Panic"]
                 ELSE [acc EXCEPT !.local_external_ip = addr[1],
                                  !.context.local_player_index = wrapping_sub(player.port, 1)]
             chat_messages ==
                 IF Len(player.chat_messages) # CHAT_LEN THEN chat_default
                 ELSE player.chat_messages
             pushed ==
                 IF located.st # "run" THEN located
                 ELSE [located EXCEPT !.context.players =
                          Append(@, [display_name |-> player.display_name,
                                     chat_messages |-> chat_messages,
                                     port |-> player.port])]
         IN players_pass(players, i + 1, pushed, checks)

\* Variant of addrs_pass: a player behind the local external IP contributes
\* its external address and its LAN address.
RECURSIVE addrs_pass_both(_, _, _, _)
addrs_pass_both(players, i, acc, checks) ==
    IF acc.st # "run" \/ i > Len(players) THEN acc
    ELSE LET player == players[i]
             addr == parse(player.ip_address)
             lan == IF player.ip_address_lan = None THEN None
                    ELSE parse(player.ip_address_lan[1])
             next ==
                 IF player.port = 0 /\ checks THEN [acc EXCEPT !.st = "Panic"]
                 ELSE IF wrapping_sub(player.port, 1) = acc.context.local_player_index THEN acc
                 ELSE IF addr = None THEN [acc EXCEPT !.st = "InvalidAddr"]
                 ELSE IF addr[1].ip # acc.local_external_ip.ip \/ player.ip_address_lan = None
                      THEN [acc EXCEPT !.context.remote_addrs = Append(@, addr[1])]
                 ELSE IF lan = None THEN [acc EXCEPT !.st = "InvalidAddr"]
                 ELSE [acc EXCEPT !.context.remote_addrs = Append(Append(@, addr[1]), lan[1])]
         IN addrs_pass_both(players, i + 1, next, checks)

\* Variant of addrs_pass: the LAN address is taken whenever there is one.
RECURSIVE addrs_pass_lan_first(_, _, _, _)
addrs_pass_lan_first(players, i, acc, checks) ==
    IF acc.st # "run" \/ i > Len(players) THEN acc
    ELSE LET player == players[i]
             addr == parse(player.ip_address)
             lan == IF player.ip_address_lan = None THEN None
                    ELSE parse(player.ip_address_lan[1])
             next ==
                 IF player.port = 0 /\ checks THEN [acc EXCEPT !.st = "Panic"]
                 ELSE IF wrapping_sub(player.port, 1) = acc.context.local_player_index THEN acc
                 ELSE IF addr = None THEN [acc EXCEPT !.st = "InvalidAddr"]
                 ELSE IF player.ip_address_lan = None
                      THEN [acc EXCEPT !.context.remote_addrs = Append(@, addr[1])]
                 ELSE IF lan = None THEN [acc EXCEPT !.st = "InvalidAddr"]
                 ELSE [acc EXCEPT !.context.remote_addrs = Append(@, lan[1])]
         IN addrs_pass_lan_first(players, i + 1, next, checks)

\* Variant of addrs_pass: a LAN address that does not parse is replaced by
\* the external address.
RECURSIVE addrs_pass_lan_fallback(_, _, _, _)
addrs_pass_lan_fallback(players, i, acc, checks) ==
    IF acc.st # "run" \/ i > Len(players) THEN acc
    ELSE LET player == players[i]
             addr == parse(player.ip_address)
             lan == IF player.ip_address_lan = None THEN None
                    ELSE parse(player.ip_address_lan[1])
             next ==
                 IF player.port = 0 /\ checks THEN [acc EXCEPT !.st = "Panic"]
                 ELSE IF wrapping_sub(player.port, 1) = acc.context.local_player_index THEN acc
                 ELSE IF addr = None THEN [acc EXCEPT !.st = "InvalidAddr"]
                 ELSE IF addr[1].ip # acc.local_external_ip.ip \/ lan = None
                      THEN [acc EXCEPT !.context.remote_addrs = Append(@, addr[1])]
                 ELSE [acc EXCEPT !.context.remote_addrs = Append(@, lan[1])]
         IN addrs_pass_lan_fallback(players, i + 1, next, checks)

\* Second loop over the players (lines 637-666): one address per player
\* whose port is not the local one.
RECURSIVE addrs_pass(_, _, _, _)
addrs_pass(players, i, acc, checks) ==
    IF acc.st # "run" \/ i > Len(players) THEN acc
    ELSE LET player == players[i]
             addr == parse(player.ip_address)
             lan == IF player.ip_address_lan = None THEN None
                    ELSE parse(player.ip_address_lan[1])
             next ==
                 IF player.port = 0 /\ checks THEN [acc EXCEPT !.st = "Panic"]
                 ELSE IF wrapping_sub(player.port, 1) = acc.context.local_player_index THEN acc
                 ELSE IF addr = None THEN [acc EXCEPT !.st = "InvalidAddr"]
                 ELSE IF addr[1].ip # acc.local_external_ip.ip \/ player.ip_address_lan = None
                      THEN [acc EXCEPT !.context.remote_addrs = Append(@, addr[1])]
                 ELSE IF lan = None THEN [acc EXCEPT !.st = "InvalidAddr"]
                 ELSE [acc EXCEPT !.context.remote_addrs = Append(@, lan[1])]
         IN addrs_pass(players, i + 1, next, checks)

\* Stage loop (lines 668-674): unknown ids are dropped.
RECURSIVE stages_pass(_, _)
stages_pass(values, i) ==
    IF i > Len(values) THEN <<>>
    ELSE LET stage == Stage_from(values[i]) IN
         (IF stage = None THEN <<>> ELSE <<stage[1]>>) \o stages_pass(values, i + 1)

\* Variant of the default stage list: FountainOfDreams is never added.
default_stages_five(nplayers) ==
    <<"PokemonStadium", "YoshisStory", "Dreamland", "Battlefield", "FinalDestination">>

default_stages(nplayers) ==
    <<"PokemonStadium", "YoshisStory", "Dreamland", "Battlefield", "FinalDestination">>
        \o (IF nplayers = 2 THEN <<"FountainOfDreams">> ELSE <<>>)

\* Lines 578-692: what check_ticket does with an outcome of receive that is
\* not a timeout.
check_response(recv, checks) ==
    IF ~recv.ok THEN Outcome("Err", Error("Receive", recv.err), None)
    ELSE LET response == recv.val[1] IN
         IF response.kind # GET_TICKET_RESP
         THEN Outcome("Err", Error("InvalidResponse", response.kind), None)
         ELSE IF response.error # None
         THEN Outcome("Err", Error("Server", response.error[1]),
                      IF response.latest_version # "" THEN Some(response.latest_version)
                      ELSE None)
         ELSE LET start == [st |-> "run",
                            local_external_ip |-> [ip |-> "0.0.0.0", port |-> 0],
                            context |-> [MatchContext_default EXCEPT
                                            !.id = response.match_id,
                                            !.is_host = response.is_host]]
                  first == players_pass(response.players, 1, start, checks)
                  second == addrs_pass(response.players, 1, first, checks)
                  mapped == stages_pass(response.stages, 1)
                  stages == IF mapped = <<>>
                            THEN default_stages(Len(second.context.players))
                            ELSE mapped
              IN IF second.st = "Panic" THEN Outcome("Panic", None, None)
                 ELSE IF second.st = "InvalidAddr"
                 THEN Outcome("Err", Error("InvalidAddr", "parse"), None)
                 ELSE Outcome("Ok", Some([second.context EXCEPT !.stages = stages]), None)

\* Variant of check_ticket: a receive timeout is raised like any other
\* receive error.
check_ticket_timeout_raised(recv, checks) == check_response(recv, checks)

\* Variant of check_ticket: the version of any decoded response is handed to
\* the UserManager.
check_ticket_overwrite_any(recv, checks) ==
    IF ~recv.ok /\ recv.err = "Timeout" THEN Outcome("Ok", None, None)
    ELSE LET result == check_response(recv, checks) IN
         IF recv.ok /\ recv.val[1].latest_version # ""
         THEN [result EXCEPT !.overwrite = Some(recv.val[1].latest_version)]
         ELSE result

check_ticket(recv, checks) ==
    IF ~recv.ok /\ recv.err = "Timeout" THEN Outcome("Ok", None, None)
    ELSE check_response(recv, checks)

(***************************************************************************)
(* Inputs: what the network and the matchmaking server can hand to the     *)
(* worker.                                                                 *)
(***************************************************************************)
RecvErr(e) == [ok |-> FALSE, err |-> e, val |-> None]
RecvOk(response) == [ok |-> TRUE, err |-> "", val |-> Some(response)]

PlayerInfo(is_local, display_name, port, ip_address, ip_address_lan, chat_messages) ==
    [is_local |-> is_local, display_name |-> display_name, port |-> port,
     ip_address |-> ip_address, ip_address_lan |-> ip_address_lan,
     chat_messages |-> chat_messages]

TicketResponse(kind, latest_version, match_id, error, players, stages, is_host) ==
    [kind |-> kind, latest_version |-> latest_version, match_id |-> match_id,
     error |-> error, players |-> players, stages |-> stages, is_host |-> is_host]

SubmitTicketResponse(kind, error) == [kind |-> kind, error |-> error]

RankedId == <<"mode.ranked", "-2024-01-01T00:00:00.00-0">>
UnrankedId == <<"mode.unranked", "-2024-01-01T00:00:00.00-0">>

\* An unranked assignment: two players behind different external addresses.
AssignUnranked ==
    TicketResponse(GET_TICKET_RESP, "", UnrankedId, None,
        <<PlayerInfo(TRUE, "Foo", 1, "1.2.3.4:41000", Some("192.168.0.2:41001"), <<>>),
          PlayerInfo(FALSE, "Bar", 2, "5.6.7.8:41000", Some("192.168.0.2:41001"), <<>>)>>,
        <<31, 153>>, TRUE)

\* A ranked assignment: both players behind the same external address.
AssignRanked ==
    TicketResponse(GET_TICKET_RESP, "", RankedId, None,
        <<PlayerInfo(FALSE, "Bar", 1, "1.2.3.4:41001", Some("192.168.0.2:41001"), <<>>),
          PlayerInfo(TRUE, "Foo", 2, "1.2.3.4:41000", None, <<>>)>>,
        <<>>, FALSE)

\* An assignment whose remote address does not parse.
AssignBadAddr ==
    TicketResponse(GET_TICKET_RESP, "", UnrankedId, None,
        <<PlayerInfo(TRUE, "Foo", 1, "1.2.3.4:41000", None, <<>>),
          PlayerInfo(FALSE, "Bar", 2, "5.6.7.8", None, <<>>)>>,
        <<>>, TRUE)

\* An assignment with a player in port 0.
AssignPortZero ==
    TicketResponse(GET_TICKET_RESP, "", UnrankedId, None,
        <<PlayerInfo(TRUE, "Foo", 1, "1.2.3.4:41000", None, <<>>),
          PlayerInfo(FALSE, "Bar", 0, "5.6.7.8:41000", None, <<>>)>>,
        <<>>, TRUE)

\* An assignment whose player list is absent.
AssignNoPlayers ==
    TicketResponse(GET_TICKET_RESP, "", UnrankedId, None, <<>>, <<>>, FALSE)

ServerErrors == {"Client out of date"}

TicketResponses ==
    {AssignUnranked, AssignRanked, AssignBadAddr, AssignPortZero, AssignNoPlayers}
    \cup {TicketResponse(GET_TICKET_RESP, v, <<>>, Some(e), <<>>, <<>>, FALSE) :
             v \in {"", "3.5.2"}, e \in ServerErrors}
    \cup {TicketResponse(CREATE_TICKET_RESP, "", <<>>, Some(e), <<>>, <<>>, FALSE) :
             e \in ServerErrors}

\* The receive failures and connect failures the state machine is run on:
\* one per user-facing message.
PollFailures == {"Timeout", "Disconnect"}
SubmitFailures == {"Timeout"}
ConnectFailures == {"UnableToConnect"}

PollInputs ==
    {RecvErr(e) : e \in PollFailures} \cup {RecvOk(r) : r \in TicketResponses}

SubmitTicketResponses ==
    {SubmitTicketResponse(kind, e) :
        kind \in {CREATE_TICKET_RESP, GET_TICKET_RESP},
        e \in {None} \cup {Some(m) : m \in ServerErrors}}

SubmitInputs ==
    {[connect |-> c, lan_ok |-> TRUE, recv |-> RecvErr("Timeout")] : c \in ConnectFailures}
    \cup {[connect |-> "Ok", lan_ok |-> TRUE, recv |-> r] :
             r \in {RecvErr(e) : e \in SubmitFailures}
                   \cup {RecvOk(a) : a \in SubmitTicketResponses}}

(***************************************************************************)
(* Assignments check_ticket is run on: every player list of up to          *)
(* MaxPlayers players in distinct ports from 1 up, one of them local, each *)
(* with any of the sample addresses; some malformed player lists; every    *)
(* stage list of up to MaxStages sample ids; and every single u16 stage id.*)
(***************************************************************************)
MaxPlayers == 2
MaxStages == 2

\* Largest value of the u16 a stage id is received as.
U16_MAX == 65535

\* External addresses: two ports of one IP, another IP, and one that does
\* not parse (no port).
Addrs == {"1.2.3.4:41000", "1.2.3.4:41001", "5.6.7.8:41000", "5.6.7.8"}

\* LAN addresses: absent, valid, and one that does not parse.
LanAddrs == {None, Some("192.168.0.2:41001"), Some("192.168.0.2")}

Ports(n) ==
    {p \in [1..n -> 1..(n + 1)] : \A i, j \in 1..n : i # j => p[i] # p[j]}

\* The list of n players with player l local, player i in port p[i] behind
\* the external address a[i] and the LAN address lan[i].
PlayerList(n, l, p, a, lan) ==
    [i \in 1..n |-> PlayerInfo(i = l, "P", p[i], a[i], lan[i], <<>>)]

\* Player lists the server should not send: nobody local, two locals, two
\* players in one port.
MalformedPlayerLists ==
    {<<PlayerInfo(FALSE, "P", 1, "1.2.3.4:41000", None, <<>>),
       PlayerInfo(FALSE, "P", 2, "5.6.7.8:41000", None, <<>>)>>,
     <<PlayerInfo(TRUE, "P", 1, "1.2.3.4:41000", None, <<>>),
       PlayerInfo(TRUE, "P", 2, "5.6.7.8:41000", None, <<>>)>>,
     <<PlayerInfo(TRUE, "P", 1, "1.2.3.4:41000", None, <<>>),
       PlayerInfo(FALSE, "P", 1, "5.6.7.8:41000", None, <<>>)>>}

\* n players in ports 1..n behind different addresses, the first one local.
SamplePlayers(n) ==
    [i \in 1..n |->
        PlayerInfo(i = 1, "P", i,
                   IF i = 1 THEN "1.2.3.4:41000" ELSE "5.6.7.8:41000", None, <<>>)]

\* Lengths of the chat-message lists a server sends, around CHAT_LEN.
ChatLens == {0, 1, CHAT_LEN - 1, CHAT_LEN, CHAT_LEN + 1}

\* Chat-message lists: one message repeated, and one list of CHAT_LEN
\* messages of the player's own.
ChatLists ==
    {[i \in 1..n |-> m] : n \in ChatLens, m \in {"gg", "default"}}
        \cup {[i \in 1..CHAT_LEN |-> IF i = 1 THEN "one sec" ELSE "gg"]}

\* Two players in ports 1 and 2 behind different addresses, the first one
\* local, with the chat-message lists given.
ChatPlayers(chats) ==
    [i \in 1..2 |->
        PlayerInfo(i = 1, "P", i,
                   IF i = 1 THEN "1.2.3.4:41000" ELSE "5.6.7.8:41000", None, chats[i])]

StageIds == {to_u16(stage) : stage \in Stage} \cup {0, 153}

StageLists == UNION {[1..n -> StageIds] : n \in 0..MaxStages}

Assignment(players, stages) ==
    TicketResponse(GET_TICKET_RESP, "", UnrankedId, None, players, stages, FALSE)

(***************************************************************************)
(* State.                                                                  *)
(*                                                                         *)
(* A generation of handoff cells is a bundle id b: stateCell[b] is the     *)
(* AtomicI8 behind the Arc, contextCell[b] and errorCell[b] the OnceLocks. *)
(* The manager and each worker hold bundle ids, as the code holds Arcs.    *)
(***************************************************************************)
VARIABLES
    stateCell,        \* bundle id -> i8 held by the AtomicState
    contextCell,      \* bundle id -> Option<MatchContext>
    errorCell,        \* bundle id -> Option<message>
    owner,            \* bundle id -> number of the find_match call that made it
    cellLog,          \* bundle id -> who has written which cell of the bundle
    double_set,       \* TRUE once OnceValue::set has logged "double set"
    mgr,              \* bundle the NetplayManager's fields point to
    cpc,              \* position of the caller thread inside find_match
    ngen,             \* number of find_match calls started
    wpc,              \* worker -> position inside matchmaking::run
    wcell,            \* worker -> Option<bundle id> captured at spawn
    host,             \* worker -> TRUE when run's `host` is Some
    context,          \* worker -> run's `context`
    pending,          \* worker -> Option<message> about to be written
    response,         \* worker -> Option<outcome of the last receive>
    observed,         \* worker -> Option<state read at the last loop top>
    reported,         \* workers that issued the "connecting" status report
    attempt,          \* worker -> receive's `attempt`: slices of the receive done
    idle_slices,      \* worker -> slices begun on an Idle cell since its last read
    latest_version,   \* Option<version> last given to the UserManager
    report_result,    \* worker -> Option<what report_match_status returned>
    ack,              \* worker -> Option<what the network gave submit_ticket>
    got,              \* Option<the caller's last accessor call and its result>
    call,             \* the transport function running on the host, with its argument
    polls,            \* host.service() calls made by the running function
    tries,            \* the function's `attempt` counter
    slept,            \* milliseconds the function has slept
    event,            \* Option<what the last host.service() call returned>
    ignored,          \* what host.service() returned and the function passed over
    peers,            \* peer -> "connected", "disconnecting" or "reset"
    outcome           \* Option<what the function returned>

vars ==
    <<stateCell, contextCell, errorCell, owner, cellLog, double_set, mgr,
      cpc, ngen, wpc, wcell, host, context, pending, response, observed,
      reported, attempt, idle_slices, latest_version, report_result, ack,
      got, call, polls, tries, slept, event, ignored, peers, outcome>>

cellVars == <<stateCell, contextCell, errorCell, owner, cellLog, double_set>>
coordVars == <<mgr, cpc, ngen>>
sliceVars == <<attempt, idle_slices>>
hostVars == <<call, polls, tries, slept, event, ignored, peers, outcome>>
callVars == <<got, hostVars>>
workerVars ==
    <<wpc, wcell, host, context, pending, response, observed, reported, sliceVars,
      report_result, ack>>

Bundles == DOMAIN stateCell

\* A write to a bundle: the coordinator writes as 0, worker g as g; val is
\* the state written to the state cell, and "set" for a once-cell.
Write(by, field, val) == [by |-> by, field |-> field, val |-> val]

\* Variant of Arc_new: the cells of the current generation are reused.
Arc_new_reuse(used) == Cardinality(used) - 1

\* Arc::new: a bundle id no live Arc refers to.
Arc_new(used) == Cardinality(used)

\* The peers of the enet host a transport function is given: the matchmaking
\* server, and up to MaxPeers peers in all.
MaxPeers == 2
Peers == 1..MaxPeers

\* No transport function is being followed.
HostIdle ==
    /\ call = [fn |-> "none", timeout_ms |-> 0]
    /\ polls = 0
    /\ tries = 0
    /\ slept = 0
    /\ event = None
    /\ ignored = {}
    /\ peers = [p \in Peers |-> "connected"]
    /\ outcome = None

\* NetplayManager::new (lines 58-67), with no worker spawned yet.
Created ==
    /\ stateCell = (0 :> AtomicState_new("Idle"))
    /\ contextCell = (0 :> OnceValue_new)
    /\ errorCell = (0 :> OnceValue_new)
    /\ owner = (0 :> 0)
    /\ cellLog = (0 :> {})
    /\ double_set = FALSE
    /\ mgr = 0
    /\ cpc = "idle"
    /\ ngen = 0
    /\ wpc = [g \in Gens |-> "unspawned"]
    /\ wcell = [g \in Gens |-> None]
    /\ host = [g \in Gens |-> FALSE]
    /\ context = [g \in Gens |-> MatchContext_default]
    /\ pending = [g \in Gens |-> None]
    /\ response = [g \in Gens |-> None]
    /\ observed = [g \in Gens |-> None]
    /\ reported = {}
    /\ attempt = [g \in Gens |-> 0]
    /\ idle_slices = [g \in Gens |-> 0]
    /\ latest_version = None
    /\ report_result = [g \in Gens |-> None]
    /\ ack = [g \in Gens |-> None]
    /\ got = None

Init == Created /\ HostIdle

\* NetplayManager::remote_player_count (lib.rs 79-84) on the match-context
\* cell: the subtraction panics when overflow checks are on and there is no
\* player, and wraps otherwise.
remote_player_count(cell, overflow_checks) ==
    IF cell = None THEN [panic |-> FALSE, val |-> 0]
    ELSE IF Len(cell[1].players) = 0 /\ overflow_checks THEN [panic |-> TRUE, val |-> 0]
    ELSE [panic |-> FALSE, val |-> wrapping_sub(Len(cell[1].players), 1)]

\* NetplayManager::get_error_message (lib.rs 72-77) on the error cell.
get_error_message(cell) == IF cell # None THEN cell[1] ELSE ""

\* NetplayManager::get_stages (lib.rs 86-91) on the match-context cell.
get_stages(cell) == IF cell # None THEN cell[1].stages ELSE <<>>

\* Variant of get_player_name: an index past the end wraps round to the
\* start of the list.
get_player_name_wrapped(cell, port) ==
    IF cell = None THEN ""
    ELSE IF Len(cell[1].players) = 0 THEN ""
    ELSE cell[1].players[(port % Len(cell[1].players)) + 1].display_name

\* NetplayManager::get_player_name (lib.rs 93-102) on the match-context
\* cell: port is an index into the vector, counted from 0.
get_player_name(cell, port) ==
    IF cell = None THEN ""
    ELSE IF port < Len(cell[1].players) THEN cell[1].players[port + 1].display_name
    ELSE ""

(***************************************************************************)
(* NetplayManager::find_match, statement by statement (lib.rs 126-159).    *)
(***************************************************************************)

\* Line 132: self.state.set(Idle) on the current generation.
FindMatchReset ==
    /\ cpc = "idle"
    /\ ngen < MaxGen
    /\ ngen' = ngen + 1
    /\ stateCell' = [stateCell EXCEPT ![mgr] = to_i8("Idle")]
    /\ cellLog' = [cellLog EXCEPT ![mgr] = @ \cup {Write(0, "state", "Idle")}]
    /\ cpc' = "new"
    /\ UNCHANGED <<callVars, contextCell, errorCell, owner, double_set, mgr,
                   workerVars, latest_version>>

\* Variant of FindMatchNew: the state cell of the new generation starts at
\* Matchmaking.
FindMatchNew_matchmaking ==
    /\ cpc = "new"
    /\ LET b == Arc_new(Bundles) IN
        /\ stateCell' = (b :> AtomicState_new("Matchmaking")) @@ stateCell
        /\ contextCell' = (b :> OnceValue_new) @@ contextCell
        /\ errorCell' = (b :> OnceValue_new) @@ errorCell
        /\ owner' = (b :> ngen) @@ owner
        /\ cellLog' = (b :> {}) @@ cellLog
        /\ mgr' = b
    /\ cpc' = "spawn"
    /\ UNCHANGED <<callVars, double_set, ngen, workerVars, latest_version>>

\* Lines 136-138: the three fields are replaced by fresh cells.
FindMatchNew ==
    /\ cpc = "new"
    /\ LET b == Arc_new(Bundles) IN
        /\ stateCell' = (b :> AtomicState_new("Initializing")) @@ stateCell
        /\ contextCell' = (b :> OnceValue_new) @@ contextCell
        /\ errorCell' = (b :> OnceValue_new) @@ errorCell
        /\ owner' = (b :> ngen) @@ owner
        /\ cellLog' = (b :> {}) @@ cellLog
        /\ mgr' = b
    /\ cpc' = "spawn"
    /\ UNCHANGED <<callVars, double_set, ngen, workerVars, latest_version>>

\* Variant of FindMatchSpawn: the failure branch is also taken when the
\* thread was spawned.
FindMatchSpawn_fails_anyway ==
    /\ cpc = "spawn"
    /\ \E spawned \in BOOLEAN :
        IF spawned
        THEN /\ wpc' = [wpc EXCEPT ![ngen] = "loop"]
             /\ wcell' = [wcell EXCEPT ![ngen] = Some(mgr)]
             /\ cpc' = "fail_error"
        ELSE /\ cpc' = "fail_error"
             /\ UNCHANGED <<wpc, wcell>>
    /\ UNCHANGED <<callVars, report_result, ack, cellVars, mgr, ngen, host, context, pending,
                   response, observed, reported, attempt, idle_slices,
                   latest_version>>

\* Lines 140-155: the cells are cloned into the closure and the thread is
\* spawned; the operating system may refuse the thread.
FindMatchSpawn ==
    /\ cpc = "spawn"
    /\ \E spawned \in BOOLEAN :
        IF spawned
        THEN /\ wpc' = [wpc EXCEPT ![ngen] = "loop"]
             /\ wcell' = [wcell EXCEPT ![ngen] = Some(mgr)]
             /\ cpc' = "idle"
        ELSE /\ cpc' = "fail_error"
             /\ UNCHANGED <<wpc, wcell>>
    /\ UNCHANGED <<callVars, report_result, ack, cellVars, mgr, ngen, host, context, pending,
                   response, observed, reported, attempt, idle_slices,
                   latest_version>>

\* Line 156: self.error.set("Failed to start mm").
FindMatchSetError ==
    /\ cpc = "fail_error"
    /\ errorCell' = [errorCell EXCEPT ![mgr] = OnceValue_set(@, "Failed to start mm")]
    /\ double_set' = (double_set \/ errorCell[mgr] # None)
    /\ cellLog' = [cellLog EXCEPT ![mgr] = @ \cup {Write(0, "error", "set")}]
    /\ cpc' = "fail_state"
    /\ UNCHANGED <<callVars, stateCell, contextCell, owner, mgr, ngen,
                   workerVars, latest_version>>

\* Variant of FindMatchSetErrorEncountered: find_match returns with the
\* message set and the state left alone.
FindMatchSetErrorEncountered_skip ==
    /\ cpc = "fail_state"
    /\ cpc' = "idle"
    /\ UNCHANGED <<callVars, cellVars, mgr, ngen, workerVars, latest_version>>

\* Line 157: self.state.set(ErrorEncountered).
FindMatchSetErrorEncountered ==
    /\ cpc = "fail_state"
    /\ stateCell' = [stateCell EXCEPT ![mgr] = to_i8("ErrorEncountered")]
    /\ cellLog' = [cellLog EXCEPT ![mgr] = @ \cup {Write(0, "state", "ErrorEncountered")}]
    /\ cpc' = "idle"
    /\ UNCHANGED <<callVars, contextCell, errorCell, owner, double_set, mgr, ngen,
                   workerVars, latest_version>>

(***************************************************************************)
(* matchmaking::run, one action per access to a shared cell or to the      *)
(* network (matchmaking.rs 38-121).                                        *)
(***************************************************************************)

\* Variant of RunLoop: the Matchmaking arm also takes OpponentConnecting.
RunLoop_polls_on(g) ==
    /\ wpc[g] = "loop"
    /\ LET state == AtomicState_get(stateCell[wcell[g][1]]) IN
        /\ observed' = [observed EXCEPT ![g] = Some(state)]
        /\ response' = [response EXCEPT ![g] = None]
        /\ idle_slices' = [idle_slices EXCEPT ![g] = 0]
        /\ IF state = "Initializing"
           THEN wpc' = [wpc EXCEPT ![g] = "connect"]
           ELSE IF state \in {"Matchmaking", "OpponentConnecting"}
           THEN wpc' = [wpc EXCEPT ![g] = "check"]
           ELSE wpc' = [wpc EXCEPT ![g] = "terminate"]
    /\ UNCHANGED <<callVars, report_result, ack, cellVars, coordVars, wcell, attempt, host, context, pending,
                   reported, latest_version>>

\* Line 56: state.get() and the dispatch of the match.  The Initializing arm
\* enters submit_ticket, whose first call is connect_to_mm ("connect"); the
\* Matchmaking arm enters check_ticket, whose first call is receive
\* ("check"); the lines after the loop enter terminate_connection
\* ("terminate").  At each of the three the next call of host.service() is
\* pending.
RunLoop(g) ==
    /\ wpc[g] = "loop"
    /\ LET state == AtomicState_get(stateCell[wcell[g][1]]) IN
        /\ observed' = [observed EXCEPT ![g] = Some(state)]
        /\ response' = [response EXCEPT ![g] = None]
        /\ idle_slices' = [idle_slices EXCEPT ![g] = 0]
        /\ IF state = "Initializing"
           THEN /\ wpc' = [wpc EXCEPT ![g] = "connect"]
                /\ UNCHANGED pending
           ELSE IF state = "Matchmaking"
           THEN IF ~host[g]
                THEN /\ wpc' = [wpc EXCEPT ![g] = "set_error"]
                     /\ pending' = [pending EXCEPT ![g] = Some("Missing host")]
                ELSE /\ wpc' = [wpc EXCEPT ![g] = "check"]
                     /\ UNCHANGED pending
           ELSE /\ wpc' = [wpc EXCEPT ![g] = "terminate"]
                /\ UNCHANGED pending
    /\ UNCHANGED <<callVars, report_result, ack, cellVars, coordVars, wcell, attempt, host, context,
                   reported, latest_version>>

\* Where submit_ticket is when it returns on the network's part net: in
\* connect_to_mm or at determine_lan_addr when there is no connection or no
\* LAN address (lines 432-436), otherwise in its receive (line 467).
submit_ticket_ends_at(net) ==
    IF net.connect = "Ok" /\ net.lan_ok THEN "submit" ELSE "connect"

\* Lines 58-66: the call of host.service() that ends submit_ticket, and what
\* run does with the result on the network's part net.
Submit(g, net) ==
    /\ wpc[g] = submit_ticket_ends_at(net)
    /\ LET result == submit_ticket(net) IN
        IF result.ok
        THEN /\ host' = [host EXCEPT ![g] = TRUE]
             /\ wpc' = [wpc EXCEPT ![g] = "set_matchmaking"]
             /\ UNCHANGED pending
        ELSE /\ pending' = [pending EXCEPT ![g] = Some(set_init_error(result.val))]
             /\ wpc' = [wpc EXCEPT ![g] = "set_error"]
             /\ UNCHANGED host
    /\ attempt' = [attempt EXCEPT ![g] = 0]
    /\ ack' = [ack EXCEPT ![g] = Some(net)]
    /\ UNCHANGED <<callVars, report_result, cellVars, coordVars, wcell, idle_slices, context,
                   response, observed, reported, latest_version>>

\* The worker has been through a call of host.service() that brought
\* nothing, and slept, in the wait it is in.
Waited(g) == attempt[g] > 0

\* The first call of host.service() of a wait that brings nothing, and the
\* sleep after it (lines 224-238, 321-341, 171-177).  The calls after it
\* that bring nothing change nothing but the count of the polls, which the
\* workers that run side by side do not keep: they are followed one call at
\* a time in ReceiveSpec.
IdlePoll(g, position) ==
    /\ wpc[g] = position
    /\ ~Waited(g)
    /\ attempt' = [attempt EXCEPT ![g] = @ + 1]
    /\ UNCHANGED <<callVars, report_result, ack, cellVars, coordVars, wpc, wcell,
                   idle_slices, host, context, pending, response, observed, reported,
                   latest_version>>

\* Lines 321-341: connect_to_mm polls and no Connect event has come.
RunConnectWait(g) == IdlePoll(g, "connect")

\* Lines 321-323, 435-467: host.service() brings the Connect event and
\* connect_to_mm returns; the LAN address is found, the ticket is sent and
\* receive is entered with SUBMIT_TIMEOUT_MS.
RunSubmitSend(g) ==
    /\ wpc[g] = "connect"
    /\ wpc' = [wpc EXCEPT ![g] = "submit"]
    /\ attempt' = [attempt EXCEPT ![g] = 0]
    /\ UNCHANGED <<callVars, report_result, ack, cellVars, coordVars, wcell,
                   idle_slices, host, context, pending, response, observed, reported,
                   latest_version>>

\* Lines 224-238: the receive of submit_ticket polls and no message has
\* come.
RunSubmitWait(g) == IdlePoll(g, "submit")

\* The result on the network's part net is one that only comes when every
\* poll of a wait has brought nothing: UnableToConnect (line 336) or the
\* Timeout of receive (line 241).
TimesOut(net) ==
    \/ net.connect = "UnableToConnect"
    \/ net.connect = "Ok" /\ net.lan_ok /\ net.recv = RecvErr("Timeout")

\* Line 58: submit_ticket returns on whatever the network hands over; it
\* has waited when it returns with a timeout.
RunSubmit(g) ==
    /\ wpc[g] \in {"connect", "submit"}
    /\ \E net \in SubmitInputs :
        /\ TimesOut(net) => Waited(g)
        /\ Submit(g, net)

\* Line 61: state.set(Matchmaking).
RunSetMatchmaking(g) ==
    /\ wpc[g] = "set_matchmaking"
    /\ LET b == wcell[g][1] IN
        /\ stateCell' = [stateCell EXCEPT ![b] = to_i8("Matchmaking")]
        /\ cellLog' = [cellLog EXCEPT ![b] = @ \cup {Write(g, "state", "Matchmaking")}]
    /\ wpc' = [wpc EXCEPT ![g] = "loop"]
    /\ UNCHANGED <<callVars, report_result, ack, contextCell, errorCell, owner, double_set, coordVars,
                   wcell, sliceVars, host, context, pending, response, observed, reported,
                   latest_version>>

\* Lines 82-98: the call of host.service() that ends check_ticket's receive
\* with recv, and what run does with the outcome.  Whether an integer overflow panics depends on the build profile
\* (overflow_checks).  A panic unwinds the thread: the host is dropped and
\* nothing more is written.
Poll(g, recv, overflow_checks) ==
    /\ wpc[g] = "check"
    /\ LET result == check_ticket(recv, overflow_checks) IN
        /\ response' = [response EXCEPT ![g] = Some(recv)]
        /\ latest_version' =
               IF result.overwrite # None THEN result.overwrite ELSE latest_version
        /\ CASE result.tag = "Panic" ->
                    /\ wpc' = [wpc EXCEPT ![g] = "panicked"]
                    /\ host' = [host EXCEPT ![g] = FALSE]
                    /\ UNCHANGED <<context, pending>>
             [] result.tag = "Err" ->
                    /\ wpc' = [wpc EXCEPT ![g] = "set_error"]
                    /\ pending' = [pending EXCEPT ![g] = Some(set_matchmake_error(result.val))]
                    /\ UNCHANGED <<context, host>>
             [] result.tag = "Ok" /\ result.val = None ->
                    /\ wpc' = [wpc EXCEPT ![g] = "loop"]
                    /\ UNCHANGED <<context, pending, host>>
             [] result.tag = "Ok" /\ result.val # None ->
                    /\ wpc' = [wpc EXCEPT ![g] = "set_connecting"]
                    /\ context' = [context EXCEPT ![g] = result.val[1]]
                    /\ UNCHANGED <<pending, host>>
    /\ attempt' = [attempt EXCEPT ![g] = 0]
    /\ UNCHANGED <<callVars, report_result, ack, cellVars, coordVars, wcell, idle_slices, observed, reported>>

\* Lines 224-238: the receive of check_ticket polls and no message has
\* come.
RunCheckWait(g) == IdlePoll(g, "check")

\* The build profiles that make a difference to check_ticket on recv: both
\* when the outcome depends on the overflow checks, otherwise one for both.
Profiles(recv) ==
    IF check_ticket(recv, TRUE) = check_ticket(recv, FALSE) THEN {TRUE} ELSE BOOLEAN

\* Line 82: check_ticket returns on whatever the network hands over; its
\* receive has waited when it returns Timeout.
RunCheck(g) ==
    /\ wpc[g] = "check"
    /\ \E recv \in PollInputs :
        /\ recv = RecvErr("Timeout") => Waited(g)
        /\ \E overflow_checks \in Profiles(recv) : Poll(g, recv, overflow_checks)

\* Variant of RunSetOpponentConnecting: the context is also stored here,
\* ahead of the state, and stored again at the end of run.
RunSetOpponentConnecting_publish(g) ==
    /\ wpc[g] = "set_connecting"
    /\ LET b == wcell[g][1] IN
        /\ contextCell' = [contextCell EXCEPT ![b] = OnceValue_set(@, context[g])]
        /\ double_set' = (double_set \/ contextCell[b] # None)
        /\ stateCell' = [stateCell EXCEPT ![b] = to_i8("OpponentConnecting")]
        /\ cellLog' = [cellLog EXCEPT ![b] =
               @ \cup {Write(g, "context", "set"), Write(g, "state", "OpponentConnecting")}]
    /\ wpc' = [wpc EXCEPT ![g] = "loop"]
    /\ UNCHANGED <<callVars, report_result, ack, errorCell, owner, coordVars, wcell, sliceVars, host, context, pending,
                   response, observed, reported, latest_version>>

\* Line 85: state.set(OpponentConnecting).
RunSetOpponentConnecting(g) ==
    /\ wpc[g] = "set_connecting"
    /\ LET b == wcell[g][1] IN
        /\ stateCell' = [stateCell EXCEPT ![b] = to_i8("OpponentConnecting")]
        /\ cellLog' = [cellLog EXCEPT ![b] = @ \cup {Write(g, "state", "OpponentConnecting")}]
    /\ wpc' = [wpc EXCEPT ![g] = "loop"]
    /\ UNCHANGED <<callVars, report_result, ack, contextCell, errorCell, owner, double_set, coordVars,
                   wcell, sliceVars, host, context, pending, response, observed, reported,
                   latest_version>>

\* Variant of RunSetError: the message is dropped instead of stored.
RunSetError_skip(g) ==
    /\ wpc[g] = "set_error"
    /\ pending' = [pending EXCEPT ![g] = None]
    /\ wpc' = [wpc EXCEPT ![g] = "set_error_state"]
    /\ UNCHANGED <<callVars, report_result, ack, cellVars, coordVars, wcell, sliceVars, host, context, response,
                   observed, reported, latest_version>>

\* Lines 66, 77, 94: error_message.set(..) with the text of the error.
RunSetError(g) ==
    /\ wpc[g] = "set_error"
    /\ LET b == wcell[g][1] IN
        /\ errorCell' = [errorCell EXCEPT ![b] = OnceValue_set(@, pending[g][1])]
        /\ double_set' = (double_set \/ errorCell[b] # None)
        /\ cellLog' = [cellLog EXCEPT ![b] = @ \cup {Write(g, "error", "set")}]
    /\ pending' = [pending EXCEPT ![g] = None]
    /\ wpc' = [wpc EXCEPT ![g] = "set_error_state"]
    /\ UNCHANGED <<callVars, report_result, ack, stateCell, contextCell, owner, coordVars,
                   wcell, sliceVars, host, context, response, observed, reported,
                   latest_version>>

\* Variant of RunSetErrorEncountered: the arm leaves the loop with break
\* in place of return, and the run goes on to the lines after the loop.
RunSetErrorEncountered_break(g) ==
    /\ wpc[g] = "set_error_state"
    /\ LET b == wcell[g][1] IN
        /\ stateCell' = [stateCell EXCEPT ![b] = to_i8("ErrorEncountered")]
        /\ cellLog' = [cellLog EXCEPT ![b] = @ \cup {Write(g, "state", "ErrorEncountered")}]
    /\ wpc' = [wpc EXCEPT ![g] = "terminate"]
    /\ UNCHANGED <<callVars, report_result, ack, contextCell, errorCell, owner, double_set, coordVars,
                   wcell, sliceVars, host, context, pending, response, observed, reported,
                   latest_version>>

\* Variant of RunSetErrorEncountered: the arm does not return and the loop
\* goes round again.
RunSetErrorEncountered_retry(g) ==
    /\ wpc[g] = "set_error_state"
    /\ LET b == wcell[g][1] IN
        /\ stateCell' = [stateCell EXCEPT ![b] = to_i8("ErrorEncountered")]
        /\ cellLog' = [cellLog EXCEPT ![b] = @ \cup {Write(g, "state", "ErrorEncountered")}]
    /\ wpc' = [wpc EXCEPT ![g] = "loop"]
    /\ UNCHANGED <<callVars, report_result, ack, contextCell, errorCell, owner, double_set, coordVars,
                   wcell, sliceVars, host, context, pending, response, observed, reported,
                   latest_version>>

\* Lines 67-68, 78-79, 95-96: state.set(ErrorEncountered); return.  The
\* return drops the host without the graceful disconnect.
RunSetErrorEncountered(g) ==
    /\ wpc[g] = "set_error_state"
    /\ LET b == wcell[g][1] IN
        /\ stateCell' = [stateCell EXCEPT ![b] = to_i8("ErrorEncountered")]
        /\ cellLog' = [cellLog EXCEPT ![b] = @ \cup {Write(g, "state", "ErrorEncountered")}]
    /\ wpc' = [wpc EXCEPT ![g] = "done"]
    /\ host' = [host EXCEPT ![g] = FALSE]
    /\ UNCHANGED <<callVars, report_result, ack, contextCell, errorCell, owner, double_set, coordVars,
                   wcell, sliceVars, context, pending, response, observed, reported,
                   latest_version>>

\* Lines 105-107, 171-177: terminate_connection has asked its peers to
\* disconnect, polls and no Disconnect event has come.  There is no call
\* of terminate_connection when run holds no host.
RunTerminateWait(g) ==
    /\ host[g]
    /\ IdlePoll(g, "terminate")

\* What APIClient::report_match_status can hand back to
\* report_connection_attempt (lines 141-151).
ReportResults == {"true", "false", "error"}

\* Variant of RunReport: the report is made for every match.
RunReport_every_match(g) ==
    /\ reported' = reported \cup {g}
    /\ wpc' = [wpc EXCEPT ![g] = "reporting"]

\* Lines 110-112: for a ranked match report_connection_attempt is entered and
\* report_match_status is called (line 141); the call is made on the worker's
\* own thread.  The lines are reached as terminate_connection returns.
RunReport(g) ==
    IF contains(context[g].id, "mode.ranked")
    THEN /\ reported' = reported \cup {g}
         /\ wpc' = [wpc EXCEPT ![g] = "reporting"]
    ELSE /\ UNCHANGED reported
         /\ wpc' = [wpc EXCEPT ![g] = "publish"]

\* Variant of RunTerminate: the lines after the loop leave the host where
\* it is and go straight on to the report.
RunTerminate_skipped(g) ==
    /\ wpc[g] = "terminate"
    /\ attempt' = [attempt EXCEPT ![g] = 0]
    /\ RunReport(g)
    /\ UNCHANGED <<callVars, report_result, ack, cellVars, coordVars, wcell, idle_slices, host,
                   context, pending, response, observed, latest_version>>

\* Lines 105-112, 171-181: terminate_connection returns, on the Disconnect
\* event or when its wait is over, and the host taken out of run's variable
\* is dropped; with no host there is nothing to terminate.  Run goes on to
\* the report of a ranked match.
RunTerminate(g) ==
    /\ wpc[g] = "terminate"
    /\ host' = [host EXCEPT ![g] = FALSE]
    /\ attempt' = [attempt EXCEPT ![g] = 0]
    /\ RunReport(g)
    /\ UNCHANGED <<callVars, report_result, ack, cellVars, coordVars, wcell, idle_slices,
                   context, pending, response, observed, latest_version>>

\* Variant of RunReportReturns: a report that did not succeed is made
\* again.
RunReportReturns_retry(g) ==
    /\ wpc[g] = "reporting"
    /\ \E result \in ReportResults :
        /\ report_result' = [report_result EXCEPT ![g] = Some(result)]
        /\ wpc' = [wpc EXCEPT ![g] = IF result = "true" THEN "publish" ELSE "reporting"]
    /\ UNCHANGED <<callVars, ack, cellVars, coordVars, wcell, sliceVars, host, context,
                   pending, response, observed, reported, latest_version>>

\* Lines 141-151: report_match_status returns and its result is logged; run
\* goes on to line 118 whatever it was.
RunReportReturns(g) ==
    /\ wpc[g] = "reporting"
    /\ \E result \in ReportResults :
        /\ report_result' = [report_result EXCEPT ![g] = Some(result)]
        /\ wpc' = [wpc EXCEPT ![g] = "publish"]
    /\ UNCHANGED <<callVars, ack, cellVars, coordVars, wcell, sliceVars, host, context,
                   pending, response, observed, reported, latest_version>>

\* Variant of RunPublish: the worker also stores ConnectionSuccess in its
\* state cell once the context is handed over.
RunPublish_success(g) ==
    /\ wpc[g] = "publish"
    /\ LET b == wcell[g][1] IN
        /\ contextCell' = [contextCell EXCEPT ![b] = OnceValue_set(@, context[g])]
        /\ double_set' = (double_set \/ contextCell[b] # None)
        /\ stateCell' = [stateCell EXCEPT ![b] = to_i8("ConnectionSuccess")]
        /\ cellLog' = [cellLog EXCEPT ![b] =
                          @ \cup {Write(g, "context", "set"),
                                  Write(g, "state", "ConnectionSuccess")}]
    /\ wpc' = [wpc EXCEPT ![g] = "done"]
    /\ UNCHANGED <<callVars, report_result, ack, errorCell, owner, coordVars,
                   wcell, sliceVars, host, context, pending, response, observed, reported,
                   latest_version>>

\* Line 118: match_context.set(context).
RunPublish(g) ==
    /\ wpc[g] = "publish"
    /\ LET b == wcell[g][1] IN
        /\ contextCell' = [contextCell EXCEPT ![b] = OnceValue_set(@, context[g])]
        /\ double_set' = (double_set \/ contextCell[b] # None)
        /\ cellLog' = [cellLog EXCEPT ![b] = @ \cup {Write(g, "context", "set")}]
    /\ wpc' = [wpc EXCEPT ![g] = "done"]
    /\ UNCHANGED <<callVars, report_result, ack, stateCell, errorCell, owner, coordVars,
                   wcell, sliceVars, host, context, pending, response, observed, reported,
                   latest_version>>

Worker(g) ==
    \/ RunLoop(g)
    \/ RunConnectWait(g)
    \/ RunSubmitSend(g)
    \/ RunSubmitWait(g)
    \/ RunSubmit(g)
    \/ RunSetMatchmaking(g)
    \/ RunCheckWait(g)
    \/ RunCheck(g)
    \/ RunSetOpponentConnecting(g)
    \/ RunSetError(g)
    \/ RunSetErrorEncountered(g)
    \/ RunTerminateWait(g)
    \/ RunTerminate(g)
    \/ RunReportReturns(g)
    \/ RunPublish(g)

Coordinator ==
    \/ FindMatchReset
    \/ FindMatchNew
    \/ FindMatchSpawn
    \/ FindMatchSetError
    \/ FindMatchSetErrorEncountered

Next == Coordinator \/ \E g \in Gens : Worker(g)

Spec == Init /\ [][Next]_vars

\* Every spawned thread keeps being scheduled; the caller is free to stop.
FairSpec == Spec /\ \A g \in Gens : WF_vars(Worker(g))

(***************************************************************************)
(* receive, slice by slice (matchmaking.rs 208-242).  A receive runs up to *)
(* max_attempts slices: in each the host is serviced and, when no message  *)
(* came, the thread sleeps for the length of a slice.  The state cell is   *)
(* not an argument of receive.                                             *)
(***************************************************************************)
host_service_timeout_ms == 250

\* terminate_connection (lines 158-160) and connect_to_mm (lines 316-318):
\* the length of the wait and of the sleep between two polls.
terminate_timeout == 3000
terminate_sleep_ms == 250

connect_max_attempts == 20
connect_sleep_ms == 500

\* Line 164: the condition of terminate_connection's loop.
terminate_waits(s) == s <= terminate_timeout

\* The timeouts submit_ticket (line 467) and check_ticket (line 570) pass.
SUBMIT_TIMEOUT_MS == 5000
POLL_TIMEOUT_MS == 2000

\* Variant of max_attempts: the loop runs while attempt <= max_attempts.
max_attempts_inclusive(timeout_ms) ==
    ((IF timeout_ms < host_service_timeout_ms THEN host_service_timeout_ms
      ELSE timeout_ms) \div host_service_timeout_ms) + 1

\* Variant of max_attempts: a part of a slice counts as a slice.
max_attempts_rounded_up(timeout_ms) ==
    ((IF timeout_ms < host_service_timeout_ms THEN host_service_timeout_ms
      ELSE timeout_ms) + host_service_timeout_ms - 1) \div host_service_timeout_ms

\* Lines 212-220: the number of slices of a receive.
max_attempts(timeout_ms) ==
    (IF timeout_ms < host_service_timeout_ms THEN host_service_timeout_ms
     ELSE timeout_ms) \div host_service_timeout_ms

\* Lines 224-238: a slice in which host.service() brought no message.
ReceiveSlice(g, timeout_ms) ==
    /\ attempt[g] < max_attempts(timeout_ms)
    /\ attempt' = [attempt EXCEPT ![g] = @ + 1]
    /\ idle_slices' =
          [idle_slices EXCEPT ![g] =
              IF AtomicState_get(stateCell[wcell[g][1]]) = "Idle" THEN @ + 1 ELSE @]
    /\ UNCHANGED <<callVars, report_result, ack, cellVars, coordVars, wpc, wcell, host, context, pending,
                   response, observed, reported, latest_version>>

\* The receive ends now with recv: with Timeout after the last slice (line
\* 241), with anything else in a slice (lines 225-234).
Returns(g, timeout_ms, recv) ==
    IF recv = RecvErr("Timeout") THEN attempt[g] = max_attempts(timeout_ms)
    ELSE attempt[g] < max_attempts(timeout_ms)

\* Lines 321-341: an iteration of connect_to_mm's loop in which
\* host.service() brought no Connect event: attempt is counted up and the
\* thread sleeps.
RunConnectSlice(g) ==
    /\ wpc[g] = "connect"
    /\ attempt[g] < connect_max_attempts
    /\ attempt' = [attempt EXCEPT ![g] = @ + 1]
    /\ UNCHANGED <<callVars, report_result, ack, cellVars, coordVars, wpc, wcell,
                   idle_slices, host, context, pending, response, observed, reported,
                   latest_version>>

\* A slice of submit_ticket's receive.
RunSubmitSlice(g) ==
    /\ wpc[g] = "submit"
    /\ ReceiveSlice(g, SUBMIT_TIMEOUT_MS)

\* submit_ticket returns on the network's part net now: with
\* UnableToConnect from the iteration of connect_to_mm's loop that finds
\* attempt at max_attempts (lines 335-337), and from its receive as receive
\* returns.
SubmitReturns(g, net) ==
    IF submit_ticket_ends_at(net) = "submit" THEN Returns(g, SUBMIT_TIMEOUT_MS, net.recv)
    ELSE net.connect = "UnableToConnect" => attempt[g] = connect_max_attempts

\* submit_ticket returns: from connect_to_mm when the connection failed,
\* otherwise when its receive ends.
RunSubmitEnd(g) ==
    /\ wpc[g] \in {"connect", "submit"}
    /\ \E net \in SubmitInputs :
        /\ SubmitReturns(g, net)
        /\ Submit(g, net)

\* Lines 164-177: an iteration of terminate_connection's loop in which
\* host.service() brought no Disconnect event; the time slept is the
\* number of the iterations times the sleep.
RunTerminateSlice(g) ==
    /\ wpc[g] = "terminate"
    /\ host[g]
    /\ terminate_waits(attempt[g] * terminate_sleep_ms)
    /\ attempt' = [attempt EXCEPT ![g] = @ + 1]
    /\ UNCHANGED <<callVars, report_result, ack, cellVars, coordVars, wpc, wcell,
                   idle_slices, host, context, pending, response, observed, reported,
                   latest_version>>

\* A slice of check_ticket's receive.
RunCheckSlice(g) ==
    /\ wpc[g] = "check"
    /\ ReceiveSlice(g, POLL_TIMEOUT_MS)

\* check_ticket's receive ends.
RunCheckEnd(g) ==
    /\ wpc[g] = "check"
    /\ \E recv \in PollInputs :
        /\ Returns(g, POLL_TIMEOUT_MS, recv)
        /\ \E overflow_checks \in Profiles(recv) : Poll(g, recv, overflow_checks)

SlicedWorker(g) ==
    \/ RunLoop(g)
    \/ RunConnectSlice(g)
    \/ RunSubmitSend(g)
    \/ RunSubmitSlice(g)
    \/ RunSubmitEnd(g)
    \/ RunSetMatchmaking(g)
    \/ RunCheckSlice(g)
    \/ RunCheckEnd(g)
    \/ RunSetOpponentConnecting(g)
    \/ RunSetError(g)
    \/ RunSetErrorEncountered(g)
    \/ RunTerminateSlice(g)
    \/ RunTerminate(g)
    \/ RunReportReturns(g)
    \/ RunPublish(g)

\* The first worker is followed slice by slice while find_match is called
\* again and again; the workers of the later calls are spawned and left
\* unscheduled.
ReceiveNext == Coordinator \/ SlicedWorker(1)

ReceiveSpec == Init /\ [][ReceiveNext]_vars

\* The same, with the thread of the first worker kept scheduled.
FairWorkerSpec == ReceiveSpec /\ WF_vars(SlicedWorker(1))

(***************************************************************************)
(* check_ticket on its own: the first worker has submitted its ticket, has *)
(* read Matchmaking at the top of its loop and is about to poll; the poll  *)
(* goes through the slices of its receive and receives any of the          *)
(* TicketInputs in one of them, or nothing.                                *)
(***************************************************************************)
TicketInit ==
    /\ stateCell = (0 :> to_i8("Idle")) @@ (1 :> to_i8("Matchmaking"))
    /\ contextCell = (0 :> OnceValue_new) @@ (1 :> OnceValue_new)
    /\ errorCell = (0 :> OnceValue_new) @@ (1 :> OnceValue_new)
    /\ owner = (0 :> 0) @@ (1 :> 1)
    /\ cellLog = (0 :> {Write(0, "state", "Idle")})
                   @@ (1 :> {Write(1, "state", "Matchmaking")})
    /\ double_set = FALSE
    /\ mgr = 1
    /\ cpc = "idle"
    /\ ngen = 1
    /\ wpc = [g \in Gens |-> IF g = 1 THEN "check" ELSE "unspawned"]
    /\ wcell = [g \in Gens |-> IF g = 1 THEN Some(1) ELSE None]
    /\ host = [g \in Gens |-> g = 1]
    /\ context = [g \in Gens |-> MatchContext_default]
    /\ pending = [g \in Gens |-> None]
    /\ response = [g \in Gens |-> None]
    /\ observed = [g \in Gens |-> IF g = 1 THEN Some("Matchmaking") ELSE None]
    /\ reported = {}
    /\ attempt = [g \in Gens |-> 0]
    /\ idle_slices = [g \in Gens |-> 0]
    /\ latest_version = None
    /\ report_result = [g \in Gens |-> None]
    /\ ack = [g \in Gens |-> None]
    /\ got = None
    /\ HostIdle

\* A message comes in a slice of the poll's receive (lines 225-234).
TicketArrives ==
    /\ wpc[1] = "check"
    /\ attempt[1] < max_attempts(POLL_TIMEOUT_MS)

\* A message comes in the first slice of the poll's receive.  The large
\* families of messages are received there: receive hands a message on as
\* it is whatever the slice (lines 225-234); TicketVersion and
\* TicketFailure are received in every slice.
TicketArrivesFirst ==
    /\ wpc[1] = "check"
    /\ attempt[1] = 0

\* The poll receives a well-formed player list.
TicketPlayers ==
    /\ TicketArrivesFirst
    /\ \E n \in 1..MaxPlayers, overflow_checks \in BOOLEAN :
         \E l \in 1..n, p \in Ports(n), a \in [1..n -> Addrs], lan \in [1..n -> LanAddrs] :
            Poll(1, RecvOk(Assignment(PlayerList(n, l, p, a, lan), <<>>)), overflow_checks)

\* The poll receives a malformed player list.
TicketMalformed ==
    /\ TicketArrivesFirst
    /\ \E players \in MalformedPlayerLists, overflow_checks \in BOOLEAN :
            Poll(1, RecvOk(Assignment(players, <<>>)), overflow_checks)

\* The poll receives a list of sample stage ids.
TicketStages ==
    /\ TicketArrivesFirst
    /\ \E n \in 0..(MaxPlayers + 1), stages \in StageLists, overflow_checks \in BOOLEAN :
            Poll(1, RecvOk(Assignment(SamplePlayers(n), stages)), overflow_checks)

\* The poll receives one stage id, any u16.
TicketStageId ==
    /\ TicketArrivesFirst
    /\ \E value \in 0..U16_MAX, overflow_checks \in BOOLEAN :
            Poll(1, RecvOk(Assignment(SamplePlayers(2), <<value>>)), overflow_checks)

\* The version strings a response is given.
Versions == {"", "3.5.2"}

\* The poll receives a response of either discriminator, with or without an
\* error and with or without a version; the one that is an assignment has
\* two players.
TicketVersion ==
    /\ TicketArrives
    /\ \E kind \in {GET_TICKET_RESP, CREATE_TICKET_RESP}, v \in Versions,
          error \in {None} \cup {Some(e) : e \in ServerErrors},
          overflow_checks \in BOOLEAN :
            Poll(1, RecvOk(TicketResponse(kind, v, UnrankedId, error,
                                          SamplePlayers(2), <<>>, FALSE)),
                 overflow_checks)

\* The poll receives two players, each with a chat-message list of its own.
TicketChat ==
    /\ TicketArrivesFirst
    /\ \E c1 \in ChatLists, c2 \in ChatLists, overflow_checks \in BOOLEAN :
            Poll(1, RecvOk(Assignment(ChatPlayers(<<c1, c2>>), <<>>)), overflow_checks)

\* The poll's receive fails: in a slice, or with Timeout after the last.
TicketFailure ==
    /\ wpc[1] = "check"
    /\ \E e \in ReceiveError, overflow_checks \in BOOLEAN :
            /\ Returns(1, POLL_TIMEOUT_MS, RecvErr(e))
            /\ Poll(1, RecvErr(e), overflow_checks)

\* The worker goes on to report the error of its poll.
TicketError == RunSetError(1) \/ RunSetErrorEncountered(1)

TicketNext ==
    \/ RunCheckSlice(1)
    \/ TicketPlayers
    \/ TicketMalformed
    \/ TicketStages
    \/ TicketStageId
    \/ TicketVersion
    \/ TicketChat
    \/ TicketFailure
    \/ TicketError

TicketSpec == TicketInit /\ [][TicketNext]_vars

(***************************************************************************)
(* The transport functions on their own: receive (matchmaking.rs 208-242), *)
(* terminate_connection (156-181) and the wait for the connection of       *)
(* connect_to_mm (315-342), one iteration of their loops per step.  What   *)
(* host.service() returns in an iteration is the network's choice.         *)
(***************************************************************************)

\* What host.service() can return: Ok(None), Ok(Some(event)) for the three
\* kinds of event, a Receive event being told apart by what its packet
\* holds, and Err.
ServiceResults ==
    {"None", "Connect", "Disconnect", "Receive", "ReceiveNotUtf8", "ReceiveNotJson",
     "Err"}

\* What was passed over, added to the record of it; Ok(None) is no event.
PassedOver(result) == ignored \cup (IF result = "None" THEN {} ELSE {result})

\* The message a well-formed packet decodes to.
Payload == SubmitTicketResponse(CREATE_TICKET_RESP, None)

\* The function returned (), or Ok with a value that plays no part here.
Unit == [ok |-> TRUE, err |-> "", val |-> None]

\* The timeouts receive is followed with.
ReceiveTimeouts == {-1, 0, 250, 300, 499, 500, POLL_TIMEOUT_MS, SUBMIT_TIMEOUT_MS}

receive_sleep_ms == 250

Calls ==
    {[fn |-> "receive", timeout_ms |-> t] : t \in ReceiveTimeouts}
    \cup {[fn |-> "terminate_connection", timeout_ms |-> terminate_timeout],
          [fn |-> "connect_to_mm", timeout_ms |-> 0]}

HostInit ==
    /\ Created
    /\ call \in Calls
    /\ polls = 0
    /\ tries = 0
    /\ slept = 0
    /\ event = None
    /\ ignored = {}
    /\ peers = [p \in Peers |-> "connected"]
    /\ outcome = None

\* Lines 224-241: one iteration of receive's loop, and the return of Timeout
\* when it was the last.
HostReceive ==
    /\ call.fn = "receive"
    /\ outcome = None
    /\ \E result \in ServiceResults :
        /\ event' = Some(result)
        /\ polls' = polls + 1
        /\ CASE result = "Err" ->
                    /\ outcome' = Some(RecvErr("HostRead"))
                    /\ UNCHANGED <<tries, slept, ignored>>
             [] result = "Disconnect" ->
                    /\ outcome' = Some(RecvErr("Disconnect"))
                    /\ UNCHANGED <<tries, slept, ignored>>
             [] result = "ReceiveNotUtf8" ->
                    /\ outcome' = Some(RecvErr("Utf8Read"))
                    /\ UNCHANGED <<tries, slept, ignored>>
             [] result = "ReceiveNotJson" ->
                    /\ outcome' = Some(RecvErr("Deserialize"))
                    /\ UNCHANGED <<tries, slept, ignored>>
             [] result = "Receive" ->
                    /\ outcome' = Some(RecvOk(Payload))
                    /\ UNCHANGED <<tries, slept, ignored>>
             [] result \in {"None", "Connect"} ->
                    /\ tries' = tries + 1
                    /\ slept' = slept + receive_sleep_ms
                    /\ ignored' = PassedOver(result)
                    /\ outcome' = IF tries + 1 < max_attempts(call.timeout_ms) THEN None
                                  ELSE Some(RecvErr("Timeout"))
    /\ UNCHANGED <<got, call, peers, cellVars, coordVars, workerVars, latest_version>>

\* Lines 157-159: peer.disconnect(0) for every peer.
HostTerminateDisconnect ==
    /\ call.fn = "terminate_connection"
    /\ outcome = None
    /\ \A p \in Peers : peers[p] = "connected"
    /\ peers' = [p \in Peers |-> "disconnecting"]
    /\ UNCHANGED <<got, call, polls, tries, slept, event, ignored, outcome,
                   cellVars, coordVars, workerVars, latest_version>>

\* Variant of reset_peers: the first peer is reset.
reset_peers_first(ps) == [ps EXCEPT ![1] = "reset"]

\* Lines 178-180: peer.reset() for every peer.
reset_peers(ps) == [p \in DOMAIN ps |-> "reset"]

\* Lines 164-180: one iteration of terminate_connection's loop, and the reset
\* of the peers when it was the last.
HostTerminate ==
    /\ call.fn = "terminate_connection"
    /\ outcome = None
    /\ \A p \in Peers : peers[p] = "disconnecting"
    /\ terminate_waits(slept)
    /\ \E result \in ServiceResults :
        /\ event' = Some(result)
        /\ polls' = polls + 1
        /\ IF result = "Disconnect"
           THEN /\ outcome' = Some(Unit)
                /\ UNCHANGED <<slept, ignored, peers>>
           ELSE /\ slept' = slept + terminate_sleep_ms
                /\ ignored' = PassedOver(result)
                /\ IF terminate_waits(slept + terminate_sleep_ms)
                   THEN UNCHANGED <<peers, outcome>>
                   ELSE /\ peers' = reset_peers(peers)
                        /\ outcome' = Some(Unit)
    /\ UNCHANGED <<got, call, tries, cellVars, coordVars, workerVars, latest_version>>

\* Variant of HostConnect: the loop does not give up after its last
\* attempt and goes on calling host.service().
HostConnect_waits_on ==
    /\ call.fn = "connect_to_mm"
    /\ outcome = None
    /\ \E result \in ServiceResults :
        /\ event' = Some(result)
        /\ polls' = IF tries = connect_max_attempts THEN polls ELSE polls + 1
        /\ CASE result = "Err" ->
                    /\ outcome' = Some(RecvErr("HostRead"))
                    /\ UNCHANGED <<tries, slept, ignored>>
             [] result = "Connect" ->
                    /\ outcome' = Some(Unit)
                    /\ UNCHANGED <<tries, slept, ignored>>
             [] OTHER ->
                    /\ ignored' = PassedOver(result)
                    /\ IF tries = connect_max_attempts
                       THEN UNCHANGED <<tries, slept, outcome>>
                       ELSE /\ tries' = tries + 1
                            /\ slept' = slept + connect_sleep_ms
                            /\ UNCHANGED outcome
    /\ UNCHANGED <<got, call, peers, cellVars, coordVars, workerVars, latest_version>>

\* Lines 318-342: one iteration of connect_to_mm's loop.
HostConnect ==
    /\ call.fn = "connect_to_mm"
    /\ outcome = None
    /\ \E result \in ServiceResults :
        /\ event' = Some(result)
        /\ polls' = polls + 1
        /\ CASE result = "Err" ->
                    /\ outcome' = Some(RecvErr("HostRead"))
                    /\ UNCHANGED <<tries, slept, ignored>>
             [] result = "Connect" ->
                    /\ outcome' = Some(Unit)
                    /\ UNCHANGED <<tries, slept, ignored>>
             [] OTHER ->
                    /\ ignored' = PassedOver(result)
                    /\ IF tries = connect_max_attempts
                       THEN /\ outcome' = Some(RecvErr("UnableToConnect"))
                            /\ UNCHANGED <<tries, slept>>
                       ELSE /\ tries' = tries + 1
                            /\ slept' = slept + connect_sleep_ms
                            /\ UNCHANGED outcome
    /\ UNCHANGED <<got, call, peers, cellVars, coordVars, workerVars, latest_version>>

HostNext == HostReceive \/ HostTerminateDisconnect \/ HostTerminate \/ HostConnect

HostSpec == HostInit /\ [][HostNext]_vars

\* The thread that runs the function keeps being scheduled.
FairHostSpec == HostSpec /\ WF_vars(HostNext)

(***************************************************************************)
(* submit_ticket step by step: the first worker calls connect_to_mm and    *)
(* receive on its own thread, one call of host.service() at a time, and    *)
(* run goes on with what submit_ticket returns.  The worker is followed    *)
(* up to the end of its arm for Initializing.                              *)
(***************************************************************************)
\* What connect_to_mm can fail with before its loop (lines 275-314).
ConnectSetupFailures ==
    {"ServerLookup", "NoValidServerAddr", "SocketBind", "SocketPortCheck", "HostNew",
     "NoAvailablePeers"}

\* The network's part of a submission that ended at the connection.
NoConnection(error) == [connect |-> error, lan_ok |-> TRUE, recv |-> RecvErr("Timeout")]

\* Lines 432-433, 275-314: connect_to_mm fails before its loop.
SubmitConnectFails ==
    /\ wpc[1] = "connect"
    /\ call.fn = "none"
    /\ \E error \in ConnectSetupFailures : Submit(1, NoConnection(error))

\* Lines 432-433, 275-317: connect_to_mm comes to its loop.
SubmitConnect ==
    /\ wpc[1] = "connect"
    /\ call.fn = "none"
    /\ call' = [fn |-> "connect_to_mm", timeout_ms |-> 0]
    /\ UNCHANGED <<got, polls, tries, slept, event, ignored, peers, outcome,
                   cellVars, coordVars, workerVars, latest_version>>

\* Lines 433, 436: connect_to_mm returned an error, or determine_lan_addr
\* did after the connection.
SubmitNoTicket ==
    /\ wpc[1] = "connect"
    /\ call.fn = "connect_to_mm"
    /\ outcome # None
    /\ IF outcome[1].ok
       THEN Submit(1, [connect |-> "Ok", lan_ok |-> FALSE, recv |-> RecvErr("Timeout")])
       ELSE Submit(1, NoConnection(outcome[1].err))

\* Lines 435-467: the LAN address is found, the ticket is sent and receive
\* is called with SUBMIT_TIMEOUT_MS.
SubmitSend ==
    /\ call.fn = "connect_to_mm"
    /\ outcome = Some(Unit)
    /\ call' = [fn |-> "receive", timeout_ms |-> SUBMIT_TIMEOUT_MS]
    /\ polls' = 0
    /\ tries' = 0
    /\ slept' = 0
    /\ event' = None
    /\ ignored' = {}
    /\ outcome' = None
    /\ wpc[1] = "connect"
    /\ wpc' = [wpc EXCEPT ![1] = "submit"]
    /\ attempt' = [attempt EXCEPT ![1] = 0]
    /\ UNCHANGED <<got, peers, report_result, ack, cellVars, coordVars, wcell,
                   idle_slices, host, context, pending, response, observed, reported,
                   latest_version>>

\* Lines 467-480 and 58-66: receive returned.
SubmitReceived ==
    /\ wpc[1] = "submit"
    /\ call.fn = "receive"
    /\ outcome # None
    /\ Submit(1, [connect |-> "Ok", lan_ok |-> TRUE, recv |-> outcome[1]])

SubmitWorker ==
    \/ RunLoop(1)
    \/ SubmitConnectFails
    \/ SubmitConnect
    \/ HostConnect
    \/ SubmitNoTicket
    \/ SubmitSend
    \/ HostReceive
    \/ SubmitReceived
    \/ RunSetMatchmaking(1)
    \/ RunSetError(1)
    \/ RunSetErrorEncountered(1)

SubmitNext == Coordinator \/ SubmitWorker

SubmitSpec == Init /\ [][SubmitNext]_vars

\* The thread of the worker keeps being scheduled.
FairSubmitSpec == SubmitSpec /\ WF_vars(SubmitWorker)

(***************************************************************************)
(* The accessors of the NetplayManager (lib.rs 72-102), called by the      *)
(* thread that owns it between its calls of find_match.  Each reads one    *)
(* cell of the current generation; got is what the caller got back.        *)
(***************************************************************************)
MaxPort == 3

\* What an accessor hands back: a &str, a usize (or a panic) or a &[Stage].
Str(text) == [str |-> text, count |-> 0, panic |-> FALSE, stages |-> <<>>]
Usize(r) == [str |-> "", count |-> r.val, panic |-> r.panic, stages |-> <<>>]
Slice(stages) == [str |-> "", count |-> 0, panic |-> FALSE, stages |-> stages]

Got(fn, arg, val) == Some([fn |-> fn, arg |-> arg, val |-> val])

GetErrorMessage ==
    /\ cpc = "idle"
    /\ got' = Got("get_error_message", 0, Str(get_error_message(errorCell[mgr])))
    /\ UNCHANGED <<hostVars, cellVars, coordVars, workerVars, latest_version>>

RemotePlayerCount ==
    /\ cpc = "idle"
    /\ \E overflow_checks \in BOOLEAN :
         got' = Got("remote_player_count", 0,
                    Usize(remote_player_count(contextCell[mgr], overflow_checks)))
    /\ UNCHANGED <<hostVars, cellVars, coordVars, workerVars, latest_version>>

GetStages ==
    /\ cpc = "idle"
    /\ got' = Got("get_stages", 0, Slice(get_stages(contextCell[mgr])))
    /\ UNCHANGED <<hostVars, cellVars, coordVars, workerVars, latest_version>>

GetPlayerName ==
    /\ cpc = "idle"
    /\ \E port \in 0..MaxPort :
         got' = Got("get_player_name", port,
                    Str(get_player_name(contextCell[mgr], port)))
    /\ UNCHANGED <<hostVars, cellVars, coordVars, workerVars, latest_version>>

Accessor == GetErrorMessage \/ RemotePlayerCount \/ GetStages \/ GetPlayerName

\* The caller reads the cells while the first worker runs.
AccessNext == Coordinator \/ SlicedWorker(1) \/ Accessor

AccessSpec == Init /\ [][AccessNext]_vars

(***************************************************************************)
(* The NetplayManager is dropped.  There is no Drop implementation for it  *)
(* (lib.rs 45-54): its three fields are dropped in turn, each giving up    *)
(* the manager's reference to a cell; a cell lives on for as long as a     *)
(* worker holds its clone, and nothing is stored in it.                    *)
(***************************************************************************)
DropManager ==
    /\ cpc = "idle"
    /\ cpc' = "dropped"
    /\ UNCHANGED <<callVars, cellVars, mgr, ngen, workerVars, latest_version>>

DropNext == Next \/ DropManager

DropSpec == Init /\ [][DropNext]_vars

(***************************************************************************)
(* OnceValue on its own: the game thread (0) and the worker threads call   *)
(* set and get on the one error cell NetplayManager::new made, in any      *)
(* order.  got records the call made last; the log of the cell records    *)
(* every value handed to set.                                              *)
(***************************************************************************)
Threads == 0..MaxGen

OnceValues == {"v1", "v2", "v3"}

OnceSet(t, value) ==
    /\ errorCell' = [errorCell EXCEPT ![0] = OnceValue_set(@, value)]
    /\ double_set' = (double_set \/ errorCell[0] # None)
    /\ cellLog' = [cellLog EXCEPT ![0] = @ \cup {Write(t, "error", value)}]
    /\ got' = Got("set", t, Some(value))
    /\ UNCHANGED <<hostVars, stateCell, contextCell, owner, coordVars, workerVars,
                   latest_version>>

OnceGet(t) ==
    /\ got' = Got("get", t, OnceValue_get(errorCell[0]))
    /\ UNCHANGED <<hostVars, cellVars, coordVars, workerVars, latest_version>>

OnceNext ==
    \E t \in Threads :
        \/ \E value \in OnceValues : OnceSet(t, value)
        \/ OnceGet(t)

OnceSpec == Init /\ [][OnceNext]_vars

(***************************************************************************)
(* Properties.                                                             *)
(***************************************************************************)
Spawned(g) == wcell[g] # None
cell(g) == wcell[g][1]
Read(b) == AtomicState_get(stateCell[b])
CoordinatorReset(b) == Write(0, "state", "Idle") \in cellLog[b]
Exited(g) == wpc[g] \in {"done", "panicked"}

\* C1: find_match sets the previous generation's state cell to Idle before
\* it creates the new generation's cells and spawns the new worker, and a
\* worker writes only to the cells of its own generation: every bundle other
\* than the manager's current one has been reset by the coordinator, every
\* worker holds the bundle made by its own find_match call, and a bundle is
\* written only by the coordinator and by the worker of its generation.
C1_PreviousWorkerIsolated ==
    /\ \A b \in Bundles : b # mgr => CoordinatorReset(b)
    /\ \A g \in Gens : Spawned(g) => owner[cell(g)] = g
    /\ \A b \in Bundles : \A w \in cellLog[b] : w.by \in {0, owner[b]}

\* A superseded worker has written to its own state cell after the reset
\* while the worker of a later generation is running.
C1_Witness ==
    \E g, h \in Gens :
        /\ g < h /\ Spawned(g) /\ Spawned(h)
        /\ ~Exited(g) /\ ~Exited(h)
        /\ CoordinatorReset(cell(g))
        /\ Read(cell(g)) = "Matchmaking"
        /\ Read(cell(h)) = "Matchmaking"

\* C2: a worker whose generation has been superseded (the coordinator has
\* written Idle to its state cell) eventually leaves its loop and exits.
C2_SupersededWorkerExits ==
    \A g \in Gens : (Spawned(g) /\ CoordinatorReset(cell(g))) ~> Exited(g)

\* C3: a worker that read at the top of its loop a state other than
\* Initializing and Matchmaking that it had not written itself writes
\* nothing more: in particular its match-context cell stays unset.
C3_ExternalStopWritesNothing ==
    \A g \in Gens :
        (/\ observed[g] # None
         /\ observed[g][1] \notin {"Initializing", "Matchmaking"}
         /\ Write(g, "state", observed[g][1]) \notin cellLog[cell(g)])
        => contextCell[cell(g)] = None

\* C4: a state cell that reads OpponentConnecting has its match-context
\* cell set.
C4_ConnectingHasContext ==
    \A b \in Bundles : Read(b) = "OpponentConnecting" => contextCell[b] # None

\* C5: a state cell that reads ErrorEncountered has its error-message cell
\* set.
C5_ErrorHasMessage ==
    \A b \in Bundles : Read(b) = "ErrorEncountered" => errorCell[b] # None

\* A worker reported an error and the coordinator reported a spawn failure.
C5_Witness ==
    /\ \E b \in Bundles :
          Read(b) = "ErrorEncountered" /\ Write(0, "error", "set") \in cellLog[b]
    /\ \E g \in Gens :
          /\ Spawned(g) /\ Read(cell(g)) = "ErrorEncountered"
          /\ Write(g, "error", "set") \in cellLog[cell(g)]

\* C6: each error-message cell and each match-context cell is written at
\* most once, and OnceValue::set never takes its double-set path.
C6_OnceCellsSetOnce ==
    /\ ~double_set
    /\ \A b \in Bundles : \A field \in {"error", "context"} :
          Cardinality({w \in cellLog[b] : w.field = field}) <= 1

\* One generation ended with its error cell set and another with its
\* match-context cell set.
C6_Witness ==
    /\ \E b \in Bundles : errorCell[b] # None
    /\ \E b \in Bundles : contextCell[b] # None /\ contextCell[b][1].players # <<>>

AllowedChange ==
    {<<"Initializing", "Matchmaking">>, <<"Initializing", "ErrorEncountered">>,
     <<"Matchmaking", "OpponentConnecting">>, <<"Matchmaking", "ErrorEncountered">>}

\* C7: every change of a state cell's value is Initializing to Matchmaking,
\* Initializing to ErrorEncountered, Matchmaking to OpponentConnecting,
\* Matchmaking to ErrorEncountered, or the reset to Idle that find_match
\* makes on the manager's current generation.
C7_StateChanges ==
    [][\A b \in Bundles :
          Read(b)' # Read(b) =>
              \/ <<Read(b), Read(b)'>> \in AllowedChange
              \/ Read(b)' = "Idle" /\ b = mgr /\ cpc = "idle" /\ cpc' = "new"]_vars

WroteTerminal(g) ==
    \/ Write(g, "state", "ErrorEncountered") \in cellLog[cell(g)]
    \/ Write(g, "state", "OpponentConnecting") \in cellLog[cell(g)]

\* C8: a worker that has written ErrorEncountered or OpponentConnecting to
\* its state cell is at no position from which it writes the state cell,
\* submits a ticket or polls: it is at the top of the loop, past the loop,
\* or has exited.
C8_TerminalForWorker ==
    \A g \in Gens :
        (Spawned(g) /\ WroteTerminal(g)) =>
            wpc[g] \in {"loop", "terminate", "reporting", "publish", "done"}

\* A worker that wrote OpponentConnecting is back at the top of its loop
\* while its cell has been reset, and another worker ended in an error.
C8_Witness ==
    /\ \E g \in Gens :
          /\ Spawned(g) /\ wpc[g] = "loop"
          /\ Write(g, "state", "OpponentConnecting") \in cellLog[cell(g)]
          /\ Read(cell(g)) = "Idle"
    /\ \E g \in Gens :
          /\ Spawned(g) /\ wpc[g] = "done"
          /\ Write(g, "state", "ErrorEncountered") \in cellLog[cell(g)]

Timeout == Some(RecvErr("Timeout"))

\* C9: the step in which a poll times out changes none of the worker's
\* cells, leaves the state cell reading Matchmaking, or Idle after a reset,
\* and takes the worker to the top of its loop; from there a worker that
\* reads Matchmaking polls again.
C9_TimeoutWritesNothing ==
    [][\A g \in Gens :
          /\ (wpc[g] = "check" /\ response'[g] = Timeout) =>
                /\ wpc'[g] = "loop"
                /\ stateCell'[cell(g)] = stateCell[cell(g)]
                /\ errorCell'[cell(g)] = errorCell[cell(g)]
                /\ contextCell'[cell(g)] = contextCell[cell(g)]
                /\ cellLog'[cell(g)] = cellLog[cell(g)]
                /\ Read(cell(g)) \in {"Matchmaking", "Idle"}
                /\ errorCell[cell(g)] = None /\ contextCell[cell(g)] = None
          /\ (/\ wpc[g] = "loop" /\ response[g] = Timeout /\ wpc'[g] # "loop"
              /\ Read(cell(g)) = "Matchmaking") => wpc'[g] = "check"]_vars

\* A worker is back at the top of its loop after a poll that timed out.
C9_Witness ==
    \E g \in Gens :
        /\ wpc[g] = "loop" /\ response[g] = Timeout
        /\ Read(cell(g)) = "Matchmaking"
        /\ errorCell[cell(g)] = None /\ contextCell[cell(g)] = None

ServerError(g) ==
    /\ response[g] # None
    /\ response[g][1].ok
    /\ response[g][1].val[1].kind = GET_TICKET_RESP
    /\ response[g][1].val[1].error # None

\* C10: a worker whose poll received a get-ticket-resp with a populated
\* error field only goes on to store the error and stop, and once it has
\* stopped its error cell holds the server's text, written by it in the one
\* set made on the cell, it has written ErrorEncountered to its state cell,
\* which reads ErrorEncountered unless reset since, and its match-context
\* cell is unset.
C10_ServerErrorReported ==
    \A g \in Gens :
        ServerError(g) =>
            /\ wpc[g] \in {"set_error", "set_error_state", "done"}
            /\ wpc[g] = "done" =>
                  /\ errorCell[cell(g)] = Some(response[g][1].val[1].error[1])
                  /\ {w \in cellLog[cell(g)] : w.field = "error"} = {Write(g, "error", "set")}
                  /\ ~double_set
                  /\ Write(g, "state", "ErrorEncountered") \in cellLog[cell(g)]
                  /\ Read(cell(g)) \in {"ErrorEncountered", "Idle"}
                  /\ contextCell[cell(g)] = None
                  /\ Write(g, "context", "set") \notin cellLog[cell(g)]

\* A worker has stopped after a server error and its state cell still reads
\* ErrorEncountered.
C10_Witness ==
    \E g \in Gens :
        /\ ServerError(g) /\ wpc[g] = "done"
        /\ Read(cell(g)) = "ErrorEncountered"
        /\ errorCell[cell(g)] = Some("Client out of date")

(***************************************************************************)
(* Properties of check_ticket, stated on the assignment a worker's last    *)
(* poll received.                                                          *)
(***************************************************************************)
Polled(g) ==
    /\ response[g] # None
    /\ response[g][1].ok
    /\ response[g][1].val[1].kind = GET_TICKET_RESP
    /\ response[g][1].val[1].error = None

received(g) == response[g][1].val[1]

Locals(players) == {i \in 1..Len(players) : players[i].is_local}

LocalOf(players) == players[CHOOSE i \in Locals(players) : TRUE]

\* One player is flagged local, every port is at least 1 and no two players
\* share a port.
WellFormed(players) ==
    /\ Cardinality(Locals(players)) = 1
    /\ \A i \in 1..Len(players) : players[i].port >= 1
    /\ \A i, j \in 1..Len(players) : i # j => players[i].port # players[j].port

SameIp(player, local) ==
    /\ parse(player.ip_address) # None
    /\ parse(local.ip_address) # None
    /\ parse(player.ip_address)[1].ip = parse(local.ip_address)[1].ip

\* The addresses check_ticket has a use for: the external address of every
\* player, and the LAN address of a player in another port than the local
\* one whose external IP is the local player's.
UsedAddrsParse(players) ==
    LET local == LocalOf(players) IN
    \A i \in 1..Len(players) :
        /\ parse(players[i].ip_address) # None
        /\ (/\ players[i].port # local.port
            /\ SameIp(players[i], local)
            /\ players[i].ip_address_lan # None)
           => parse(players[i].ip_address_lan[1]) # None

NotLocal(player) == ~player.is_local

\* C11: for an assignment with distinct ports from 1 up, one local player
\* and used addresses that parse, check_ticket returns a context that has
\* every player, one remote address per non-local player, so one less than
\* players, and the local player's port minus one as local_player_index;
\* the worker takes that context on.
C11_RemoteAddrsCount ==
    \A g \in Gens :
        (/\ Polled(g)
         /\ WellFormed(received(g).players)
         /\ UsedAddrsParse(received(g).players)) =>
            \A checks \in BOOLEAN :
                LET result == check_ticket(response[g][1], checks) IN
                /\ result.tag = "Ok" /\ result.val # None
                /\ Len(result.val[1].players) = Len(received(g).players)
                /\ Len(result.val[1].remote_addrs) = Len(result.val[1].players) - 1
                /\ Len(result.val[1].remote_addrs)
                      = Len(SelectSeq(received(g).players, NotLocal))
                /\ result.val[1].local_player_index
                      = LocalOf(received(g).players).port - 1
                /\ context[g] = result.val[1]

\* The worker took on the context of two players, the local one in port 2
\* and a remote one reached by its LAN address.
C11_Witness ==
    /\ Polled(1) /\ WellFormed(received(1).players)
    /\ wpc[1] = "set_connecting"
    /\ Len(context[1].players) = 2
    /\ context[1].local_player_index = 1
    /\ context[1].remote_addrs = <<[ip |-> "192.168.0.2", port |-> 41001]>>

\* C12: every MatchContext stored in a match-context cell has at least one
\* player and one remote address less than players, and
\* remote_player_count neither panics nor wraps on it.
C12_StoredContextHasPlayers ==
    \A b \in Bundles :
        contextCell[b] # None =>
            /\ Len(contextCell[b][1].players) >= 1
            /\ Len(contextCell[b][1].remote_addrs) = Len(contextCell[b][1].players) - 1
            /\ \A overflow_checks \in BOOLEAN :
                  /\ ~remote_player_count(contextCell[b], overflow_checks).panic
                  /\ remote_player_count(contextCell[b], overflow_checks).val
                        = Len(contextCell[b][1].players) - 1

\* The address the rule gives for a remote player.
Chosen(player, local) ==
    IF parse(player.ip_address)[1].ip # parse(local.ip_address)[1].ip
    THEN parse(player.ip_address)[1]
    ELSE IF player.ip_address_lan # None
    THEN parse(player.ip_address_lan[1])[1]
    ELSE parse(player.ip_address)[1]

\* C13: the address check_ticket keeps for a remote player is the external
\* one if the player's external IP differs from the local player's, LAN
\* address present or not; the LAN one if the IPs are equal and there is a
\* LAN address; the external one if the IPs are equal and there is none.
\* The ports of the external addresses play no part.
C13_AddressSelection ==
    \A g \in Gens :
        (/\ Polled(g)
         /\ WellFormed(received(g).players)
         /\ UsedAddrsParse(received(g).players)) =>
            LET remote == SelectSeq(received(g).players, NotLocal)
                local == LocalOf(received(g).players)
            IN \A checks \in BOOLEAN :
                LET result == check_ticket(response[g][1], checks) IN
                /\ result.tag = "Ok" /\ result.val # None
                /\ DOMAIN result.val[1].remote_addrs = DOMAIN remote
                /\ \A k \in DOMAIN remote :
                      result.val[1].remote_addrs[k] = Chosen(remote[k], local)
                /\ context[g].remote_addrs = result.val[1].remote_addrs

\* The remote player is behind another external IP and has a LAN address:
\* the worker holds its external address.
C13_Witness ==
    /\ Polled(1) /\ WellFormed(received(1).players)
    /\ wpc[1] = "set_connecting"
    /\ Len(received(1).players) = 2
    /\ \E i \in 1..2 :
          /\ ~received(1).players[i].is_local
          /\ received(1).players[i].ip_address = "5.6.7.8:41000"
          /\ received(1).players[i].ip_address_lan = Some("192.168.0.2:41001")
    /\ LocalOf(received(1).players).ip_address = "1.2.3.4:41000"
    /\ context[1].remote_addrs = <<[ip |-> "5.6.7.8", port |-> 41000]>>

InvalidAddrRaised(g) ==
    /\ \A checks \in BOOLEAN :
          LET result == check_ticket(response[g][1], checks) IN
          result.tag = "Err" /\ result.val.kind = "InvalidAddr"
    /\ wpc[g] \in {"set_error", "set_error_state", "done"}
    /\ wpc[g] = "set_error" => pending[g] = Some("Invalid response from mm")
    /\ context[g] = MatchContext_default

\* C14: an assignment in which the external address or the LAN address of
\* any player does not parse makes check_ticket fail with InvalidAddr, and
\* the worker gets no context.
C14_AnyBadAddrFails ==
    \A g \in Gens :
        (/\ Polled(g)
         /\ WellFormed(received(g).players)
         /\ \E i \in 1..Len(received(g).players) :
               \/ parse(received(g).players[i].ip_address) = None
               \/ /\ received(g).players[i].ip_address_lan # None
                  /\ parse(received(g).players[i].ip_address_lan[1]) = None)
        => InvalidAddrRaised(g)

\* C14 as amended: check_ticket fails with InvalidAddr, and the worker gets
\* no context, exactly when an address it has a use for does not parse: the
\* external address of any player, or the LAN address of a remote player
\* whose external IP is the local player's.  The LAN address of the local
\* player or of a player behind another external IP is never parsed.
C14_UsedBadAddrFails ==
    \A g \in Gens :
        (Polled(g) /\ WellFormed(received(g).players)) =>
            (~UsedAddrsParse(received(g).players) <=> InvalidAddrRaised(g))

\* A remote player behind the local external IP had a LAN address that does
\* not parse, and the poll failed.
C14_Witness ==
    /\ Polled(1) /\ WellFormed(received(1).players)
    /\ wpc[1] = "set_error"
    /\ pending[1] = Some("Invalid response from mm")
    /\ \A i \in 1..Len(received(1).players) :
          parse(received(1).players[i].ip_address) # None
    /\ \E i \in 1..Len(received(1).players) :
          /\ ~received(1).players[i].is_local
          /\ received(1).players[i].ip_address_lan = Some("192.168.0.2")

\* The find_match call that made bundle b has returned.
Returned(b) == ngen > owner[b] \/ (ngen = owner[b] /\ cpc = "idle")

\* C17: when find_match could not spawn the worker of a generation, it has
\* itself stored the message "Failed to start mm" and then ErrorEncountered
\* in the cells of that generation by the time it returns, and the cells
\* the coordinator reports an error in are never held by a worker.
C17_SpawnFailureHandled ==
    \A b \in Bundles :
        /\ (owner[b] >= 1 /\ wpc[owner[b]] = "unspawned" /\ Returned(b)) =>
              /\ errorCell[b] = Some("Failed to start mm")
              /\ Write(0, "error", "set") \in cellLog[b]
              /\ Write(0, "state", "ErrorEncountered") \in cellLog[b]
              /\ Read(b) \in {"ErrorEncountered", "Idle"}
              /\ (b = mgr /\ cpc = "idle") => Read(b) = "ErrorEncountered"
        /\ (\/ Write(0, "error", "set") \in cellLog[b]
            \/ Write(0, "state", "ErrorEncountered") \in cellLog[b]) =>
              /\ owner[b] >= 1
              /\ wpc[owner[b]] = "unspawned"
              /\ \A g \in Gens : wcell[g] # Some(b)
              /\ \A w \in cellLog[b] : w.by = 0
              /\ contextCell[b] = None

\* find_match returned after a spawn failure: the manager's cells read
\* ErrorEncountered with the message set and no worker holds them.
C17_Witness ==
    /\ cpc = "idle" /\ ngen >= 1
    /\ wpc[owner[mgr]] = "unspawned"
    /\ Read(mgr) = "ErrorEncountered"
    /\ errorCell[mgr] = Some("Failed to start mm")

\* C18: a worker inside a receive begins at most one more slice once its
\* state cell has been reset to Idle.
C18_ResetSeenWithinOneSlice ==
    \A g \in Gens : idle_slices[g] <= 1

\* C18 as amended: a slice of a receive does not read the state cell; a
\* poll's receive has at most 8 slices and a submission's at most 20, and
\* that many can be begun on a cell that has been reset to Idle; the reset
\* is seen at the next read of the state at the top of the loop, where a
\* worker that reads Idle leaves the loop.  (The waits of connect_to_mm
\* and terminate_connection do not read the state cell either, and sleep
\* at most 20 and 13 times.)
C18_ResetSeenAtLoopTop ==
    [][\A g \in Gens :
          /\ idle_slices'[g] <= 20
          /\ wpc'[g] = "submit" => (idle_slices'[g] <= attempt'[g] /\ attempt'[g] <= 20)
          /\ wpc'[g] = "check" => (idle_slices'[g] <= attempt'[g] /\ attempt'[g] <= 8)
          /\ wpc'[g] = "connect" => attempt'[g] <= 20
          /\ wpc'[g] = "terminate" => attempt'[g] <= 13
          /\ wpc'[g] \notin {"connect", "submit", "check", "terminate"} => attempt'[g] = 0
          /\ attempt'[g] = attempt[g] + 1 =>
                /\ observed'[g] = observed[g]
                /\ wpc'[g] = wpc[g]
                /\ stateCell' = stateCell
          /\ (Spawned(g) /\ wpc[g] = "loop" /\ wpc'[g] # "loop"
                /\ Read(cell(g)) = "Idle") =>
                /\ wpc'[g] = "terminate"
                /\ observed'[g] = Some("Idle")]_vars

\* All eight slices of a poll were begun on a reset cell, the poll timed
\* out and the worker is about to read the state.
C18_Witness ==
    /\ wpc[1] = "loop" /\ response[1] = Timeout
    /\ idle_slices[1] = 8
    /\ Read(cell(1)) = "Idle"

MyWrites(g) == {w \in cellLog[cell(g)] : w.by = g}

\* C19: a worker about to submit has no host and has written nothing, so
\* it has not submitted before; a worker has a host only from its one
\* successful submission on; a worker about to poll has had no outcome of
\* a poll but timeouts; a worker with an error in hand or stored only goes
\* on to store it and return; and a worker that polls again right after a
\* poll does so after a timeout.
C19_NoRetry ==
    [][\A g \in Gens :
          /\ Spawned(g)' =>
                /\ wpc'[g] \in {"connect", "submit"} =>
                      ~host'[g] /\ MyWrites(g)' = {} /\ pending'[g] = None
                /\ host'[g] =>
                      \/ wpc'[g] = "set_matchmaking" /\ MyWrites(g)' = {}
                      \/ Write(g, "state", "Matchmaking") \in MyWrites(g)'
                /\ wpc'[g] = "check" =>
                      /\ host'[g]
                      /\ MyWrites(g)' = {Write(g, "state", "Matchmaking")}
                      /\ context'[g] = MatchContext_default
                      /\ pending'[g] = None
                /\ (pending'[g] # None \/ Write(g, "error", "set") \in MyWrites(g)') =>
                      wpc'[g] \in {"set_error", "set_error_state", "done"}
          /\ (wpc[g] = "loop" /\ wpc'[g] = "check" /\ response[g] # None) =>
                response[g] = Timeout]_vars

\* One worker is about to poll again after a timeout while another has
\* returned after an error.
C19_Witness ==
    \E g, h \in Gens :
        /\ Spawned(g) /\ wpc[g] = "loop" /\ response[g] = Timeout /\ host[g]
        /\ Read(cell(g)) = "Matchmaking"
        /\ Spawned(h) /\ wpc[h] = "done" /\ errorCell[cell(h)] # None /\ ~host[h]

\* C20: the cells made by a find_match call are written by the worker of
\* that generation only, never by the coordinator.
C20_OnlyWorkerWrites ==
    \A b \in Bundles : owner[b] >= 1 => \A w \in cellLog[b] : w.by = owner[b]

\* C20 as amended: a match-context cell is written only by the worker of
\* its generation; a state cell and an error cell are written by the worker
\* of their generation, and by find_match in two places: it stores Idle in
\* the state cell of the generation it is about to replace, and it stores
\* the message and ErrorEncountered in the cells of a generation whose
\* worker it could not spawn.
C20_WritersOfCells ==
    \A b \in Bundles : \A w \in cellLog[b] :
        \/ w.by = owner[b] /\ w.by >= 1 /\ wcell[w.by] = Some(b)
        \/ w = Write(0, "state", "Idle")
        \/ /\ w \in {Write(0, "error", "set"), Write(0, "state", "ErrorEncountered")}
           /\ owner[b] >= 1
           /\ wpc[owner[b]] = "unspawned"

\* The cells of one generation were written by its worker and reset by
\* find_match, and those of another were written by find_match after a
\* spawn failure.
C20_Witness ==
    /\ \E b \in Bundles :
          /\ Write(0, "state", "Idle") \in cellLog[b]
          /\ \E w \in cellLog[b] : w.by >= 1
    /\ \E b \in Bundles : Write(0, "state", "ErrorEncountered") \in cellLog[b]

KnownIds == {to_u16(stage) : stage \in Stage}

IsKnown(value) == value \in KnownIds

FiveStages ==
    <<"PokemonStadium", "YoshisStory", "Dreamland", "Battlefield", "FinalDestination">>

\* C15: Stage::from undoes Stage::to_u16 on the six stages, to_u16 gives
\* distinct stages distinct ids, Stage::from gives None for a received u16
\* that is none of the six ids, and check_ticket on an assignment with
\* unknown stage ids does not fail on their account: the context's stage
\* list is the list of the known ids received, in order, when there is one.
C15_StageMapping ==
    /\ \A stage \in Stage : Stage_from(to_u16(stage)) = Some(stage)
    /\ \A s1, s2 \in Stage : to_u16(s1) = to_u16(s2) => s1 = s2
    /\ \A g \in Gens :
          Polled(g) =>
            /\ \A k \in DOMAIN received(g).stages :
                  LET value == received(g).stages[k] IN
                  /\ value \in 0..U16_MAX
                  /\ IsKnown(value) <=> Stage_from(value) # None
            /\ (WellFormed(received(g).players) /\ UsedAddrsParse(received(g).players)) =>
                  LET known == SelectSeq(received(g).stages, IsKnown) IN
                  \A checks \in BOOLEAN :
                      LET result == check_ticket(response[g][1], checks) IN
                      /\ result.tag = "Ok" /\ result.val # None
                      /\ context[g].stages = result.val[1].stages
                      /\ known # <<>> =>
                            [k \in DOMAIN result.val[1].stages |->
                                to_u16(result.val[1].stages[k])] = known

\* The assignment named Battlefield and an unknown stage: the worker holds
\* a context whose only stage is Battlefield.
C15_Witness ==
    /\ Polled(1) /\ wpc[1] = "set_connecting"
    /\ received(1).stages = <<31, 153>>
    /\ context[1].stages = <<"Battlefield">>

\* C16: when none of the received stage ids is known, the context's stage
\* list is the five-stage default for more than two players and the default
\* with FountainOfDreams appended for exactly two; otherwise it is the list
\* of the known stages received; it is never empty.
C16_DefaultStages ==
    \A g \in Gens :
        Polled(g) =>
            \A checks \in BOOLEAN :
                LET result == check_ticket(response[g][1], checks)
                    known == SelectSeq(received(g).stages, IsKnown)
                IN (result.tag = "Ok" /\ result.val # None) =>
                    LET stages == result.val[1].stages
                        nplayers == Len(result.val[1].players)
                    IN /\ context[g].stages = stages
                       /\ stages # <<>>
                       /\ (known = <<>> /\ nplayers > 2) => stages = FiveStages
                       /\ (known = <<>> /\ nplayers = 2) =>
                              stages = FiveStages \o <<"FountainOfDreams">>
                       /\ known # <<>> =>
                              /\ Len(stages) = Len(known)
                              /\ \A k \in DOMAIN known : Some(stages[k]) = Stage_from(known[k])

\* Two players and only an unknown stage id received: the worker holds the
\* six-stage default.
C16_Witness ==
    /\ Polled(1) /\ wpc[1] = "set_connecting"
    /\ received(1).stages = <<153>>
    /\ Len(context[1].players) = 2
    /\ context[1].stages = FiveStages \o <<"FountainOfDreams">>

\* Three players and no stage received: the worker holds the five-stage
\* default.
C16_WitnessFive ==
    /\ Polled(1) /\ wpc[1] = "set_connecting"
    /\ received(1).stages = <<>>
    /\ Len(context[1].players) = 3
    /\ context[1].stages = FiveStages

\* C21: when the NetplayManager is dropped while the state cell of its
\* current generation reads Initializing or Matchmaking, Idle is stored in
\* that cell.  The manager stores nothing after the drop and the worker never
\* stores Initializing, so a cell of a spawned worker that reads Initializing
\* or Matchmaking after the drop read one of the two at the drop, and has
\* been given Idle by the coordinator.
C21_DropSetsIdle ==
    \A g \in Gens :
        (/\ cpc = "dropped"
         /\ Spawned(g) /\ cell(g) = mgr
         /\ Read(mgr) \in {"Initializing", "Matchmaking"})
        => CoordinatorReset(mgr)

\* The worker stored OpponentConnecting: check_ticket gave it an assignment.
Assigned(g) == Write(g, "state", "OpponentConnecting") \in cellLog[cell(g)]

\* C22: a worker that passes lines 110-112, as its teardown ends, issues
\* the "connecting" status report exactly when the match id of its context
\* contains "mode.ranked";
\* it comes to these lines with no report issued yet; a report is only ever
\* issued by a worker that was given an assignment; and the step in which
\* the report returns, whatever the result, stores nothing in any cell and
\* leads to the same next statement.
C22_ReportOnlyRanked ==
    [][\A g \in Gens :
          /\ (wpc[g] = "terminate" /\ wpc'[g] # "terminate")
                => /\ g \notin reported
                   /\ (g \in reported') <=> contains(context[g].id, "mode.ranked")
          /\ (g \in reported') => Assigned(g)
          /\ (report_result'[g] # report_result[g])
                => /\ g \in reported
                   /\ cellVars' = cellVars
                   /\ wpc'[g] = "publish"]_vars

\* A ranked match was reported, the server turned the report down and the
\* context was published; another worker published an unranked match, and
\* made no report.
C22_Witness ==
    \E g, h \in Gens :
        /\ g \in reported /\ report_result[g] = Some("false")
        /\ wpc[g] = "done" /\ contextCell[cell(g)] # None
        /\ Read(cell(g)) = "OpponentConnecting"
        /\ wpc[h] = "done" /\ Assigned(h) /\ h \notin reported
        /\ ~contains(context[h].id, "mode.ranked")

\* C23: the worker does not wait for the status report: no worker is inside
\* the call of report_match_status with its match context still to be
\* published.
C23_ReportNotAwaited ==
    \A g \in Gens :
        ~(/\ wpc[g] = "reporting"
          /\ g \in reported /\ report_result[g] = None
          /\ contextCell[cell(g)] = None)

\* C24: an accessor called while the cell it reads is unset returns the
\* empty string (get_error_message, get_player_name for every index), 0
\* (remote_player_count) or the empty list (get_stages); get_player_name on
\* a set context returns the empty string for an index at or past the number
\* of players; and the call of an accessor is one step of the caller that
\* leaves every cell, and everything else but its result, as it was.
C24_AccessorsOnUnset ==
    [][(got' # got) =>
          /\ <<cellVars, coordVars, workerVars>>' = <<cellVars, coordVars, workerVars>>
          /\ LET r == got'[1]
                 error == errorCell[mgr]
                 ctx == contextCell[mgr]
             IN /\ (r.fn = "get_error_message" /\ error = None) => r.val = Str("")
                /\ (r.fn = "remote_player_count" /\ ctx = None)
                      => r.val = Usize([panic |-> FALSE, val |-> 0])
                /\ (r.fn = "get_stages" /\ ctx = None) => r.val = Slice(<<>>)
                /\ (r.fn = "get_player_name" /\ ctx = None) => r.val = Str("")
                /\ (r.fn = "get_player_name" /\ ctx # None
                        /\ r.arg >= Len(ctx[1].players)) => r.val = Str("")]_vars

\* get_player_name was asked for the index just past the last of the two
\* players of a published context, and returned the empty string.
C24_Witness ==
    /\ got # None
    /\ got[1].fn = "get_player_name"
    /\ contextCell[mgr] # None
    /\ Len(contextCell[mgr][1].players) = 2
    /\ got[1].arg = 2
    /\ got[1].val = Str("")

\* The acknowledgment submit_ticket decoded, if it got that far.
Acked(g) ==
    /\ ack[g] # None
    /\ ack[g][1].connect = "Ok" /\ ack[g][1].lan_ok /\ ack[g][1].recv.ok

\* C25: submit_ticket on an acknowledgment whose discriminator is not
\* create-ticket-resp fails with InvalidResponse, with or without an error
\* in it; on create-ticket-resp with an error it fails with Server(message);
\* on create-ticket-resp without one it succeeds, and the worker stores
\* Matchmaking.  After a failure the worker stores the message of the error
\* in its error cell, once, then ErrorEncountered in its state cell, which
\* reads so until the coordinator resets it, and never stores Matchmaking.
C25_SubmitClassified ==
    \A g \in Gens :
        Acked(g) =>
            LET acked == ack[g][1].recv.val[1]
                result == submit_ticket(ack[g][1])
                b == cell(g)
                message == set_init_error(result.val)
            IN /\ acked.kind # CREATE_TICKET_RESP
                     => (~result.ok /\ result.val = Error("InvalidResponse", acked.kind))
               /\ (acked.kind = CREATE_TICKET_RESP /\ acked.error # None)
                     => (~result.ok /\ result.val = Error("Server", acked.error[1]))
               /\ (acked.kind = CREATE_TICKET_RESP /\ acked.error = None)
                     => result.ok
               /\ result.ok
                     => \/ wpc[g] = "set_matchmaking"
                        \/ Write(g, "state", "Matchmaking") \in cellLog[b]
               /\ ~result.ok
                     => /\ wpc[g] \in {"set_error", "set_error_state", "done"}
                        /\ wpc[g] = "set_error"
                              => (pending[g] = Some(message) /\ errorCell[b] = None)
                        /\ wpc[g] # "set_error" => errorCell[b] = Some(message)
                        /\ wpc[g] = "done"
                              => /\ Write(g, "state", "ErrorEncountered") \in cellLog[b]
                                 /\ ~CoordinatorReset(b) => Read(b) = "ErrorEncountered"
                        /\ Write(g, "state", "Matchmaking") \notin cellLog[b]
                        /\ ~double_set

\* One worker was acknowledged with get-ticket-resp carrying an error and
\* has reported an invalid response; another was acknowledged with
\* create-ticket-resp carrying an error and has reported the server's text.
C25_Witness ==
    \E g, h \in Gens :
        /\ Acked(g) /\ Acked(h)
        /\ ack[g][1].recv.val[1] = SubmitTicketResponse(GET_TICKET_RESP, Some("Client out of date"))
        /\ ack[h][1].recv.val[1] = SubmitTicketResponse(CREATE_TICKET_RESP, Some("Client out of date"))
        /\ wpc[g] = "done" /\ wpc[h] = "done"
        /\ Read(cell(h)) = "ErrorEncountered"
        /\ errorCell[cell(g)] = Some("Invalid response from mm queue")
        /\ errorCell[cell(h)] = Some("Client out of date")

\* The outcome of a poll hands a version to the UserManager: a decoded
\* get-ticket-resp with an error and a version that is not empty.
CarriesVersion(recv) ==
    /\ recv.ok
    /\ recv.val[1].kind = GET_TICKET_RESP
    /\ recv.val[1].error # None
    /\ recv.val[1].latest_version # ""

\* C26: the step in which a poll returns calls overwrite_latest_version,
\* with the version of the response, exactly when the response is a
\* get-ticket-resp with an error and a version that is not empty, and in that
\* step the error cell is still unset and the message yet to be stored; with
\* any other outcome of the poll, and in every other step, the version the
\* UserManager holds stays as it was.
C26_VersionOverwritten ==
    [][/\ \A g \in Gens :
            (response'[g] # response[g] /\ response'[g] # None) =>
               LET recv == response'[g][1] IN
               IF CarriesVersion(recv)
               THEN /\ latest_version' = Some(recv.val[1].latest_version)
                    /\ errorCell' = errorCell
                    /\ errorCell[cell(g)] = None
                    /\ wpc'[g] = "set_error"
                    /\ pending'[g] = Some(recv.val[1].error[1])
               ELSE latest_version' = latest_version
       /\ (latest_version' # latest_version) =>
            \E g \in Gens : response'[g] # response[g] /\ response'[g] # None]_vars

\* The server's error came with version 3.5.2, which the UserManager now
\* holds, and the worker has stored the error's text after that.
C26_Witness ==
    /\ response[1] # None
    /\ CarriesVersion(response[1][1])
    /\ latest_version = Some("3.5.2")
    /\ errorCell[1] = Some("Client out of date")
    /\ Write(1, "error", "set") \in cellLog[1]

\* C27: receive(timeout_ms) makes at most N = max(timeout_ms, 250) / 250,
\* rounded down, calls of host.service(): at least one, 8 for 2000 ms and 20
\* for 5000 ms.  It returns the decoded message when the call that ended it
\* brought a message, Disconnect when it brought a disconnect, and Timeout
\* when it brought nothing or another event, and then all N calls were made;
\* before that only nothing and other events were passed over, each for one
\* slice of 250 ms.
C27_ReceiveSlices ==
    call.fn = "receive" =>
        LET t == call.timeout_ms
            N == (IF t > 250 THEN t ELSE 250) \div 250
        IN /\ N >= 1
           /\ t = 2000 => N = 8
           /\ t = 5000 => N = 20
           /\ polls <= N
           /\ ignored \subseteq {"Connect"}
           /\ slept = 250 * tries
           /\ outcome = None => (polls = tries /\ tries < N)
           /\ outcome # None =>
                 /\ (outcome[1] = RecvOk(Payload)) <=> (event = Some("Receive"))
                 /\ (outcome[1] = RecvErr("Disconnect")) <=> (event = Some("Disconnect"))
                 /\ (outcome[1] = RecvErr("Timeout")) <=> (event[1] \in {"None", "Connect"})
                 /\ IF outcome[1] = RecvErr("Timeout")
                    THEN polls = N /\ tries = N
                    ELSE polls = tries + 1

\* receive(300) made its one call of host.service(), which brought a connect
\* event, and returned Timeout.
C27_Witness ==
    /\ call = [fn |-> "receive", timeout_ms |-> 300]
    /\ outcome = Some(RecvErr("Timeout"))
    /\ event = Some("Connect")
    /\ polls = 1

\* The last call of host.service() brought the disconnect acknowledgment.
Acknowledged == event = Some("Disconnect")

\* C28: terminate_connection requests the disconnect of every peer before
\* its first call of host.service(); while it waits no peer is reset; it
\* returns with every peer still disconnecting, none reset, exactly when a
\* disconnect acknowledgment came, and with every peer reset otherwise,
\* having passed over errors and other events; and it returns in every case.
C28_TerminateResets ==
    /\ [](call.fn = "terminate_connection" =>
            /\ polls >= 1 => \A p \in Peers : peers[p] # "connected"
            /\ outcome = None => \A p \in Peers : peers[p] # "reset"
            /\ "Disconnect" \notin ignored
            /\ outcome # None =>
                  IF Acknowledged
                  THEN \A p \in Peers : peers[p] = "disconnecting"
                  ELSE \A p \in Peers : peers[p] = "reset")
    /\ (call.fn = "terminate_connection") ~> (outcome # None)

\* terminate_connection met an error of the host and a message, got no
\* acknowledgment, and returned with every peer reset.
C28_Witness ==
    /\ call.fn = "terminate_connection"
    /\ outcome # None
    /\ ~Acknowledged
    /\ {"Err", "Receive"} \subseteq ignored
    /\ \A p \in Peers : peers[p] = "reset"

\* C29: terminate_connection waits for the acknowledgment in slices of
\* 250 ms, and for no more than 3000 ms and 12 slices in all.
C29_WaitAtMost3000 ==
    call.fn = "terminate_connection" =>
        /\ slept <= 3000
        /\ polls <= 12
        /\ slept = 250 * (polls - (IF outcome # None /\ Acknowledged THEN 1 ELSE 0))

\* C30: connect_to_mm fails with UnableToConnect after exactly 20 calls of
\* host.service() with a wait of 500 ms between one and the next, none of
\* which brought the connect acknowledgment; an event other than the
\* acknowledgment neither ends the wait nor changes the count; and the
\* acknowledgment, on any call, ends it with success.
C30_TwentyAttempts ==
    call.fn = "connect_to_mm" =>
        /\ polls <= 20
        /\ "Connect" \notin ignored
        /\ outcome = None => (polls = tries /\ slept = 500 * polls)
        /\ outcome # None =>
              /\ (outcome[1] = Unit) <=> (event = Some("Connect"))
              /\ (outcome[1] = RecvErr("UnableToConnect"))
                    => (polls = 20 /\ slept = 500 * (polls - 1))

\* C31: a worker gives up the host it holds, which is connected to the
\* matchmaking server, only in the step in which terminate_connection
\* returns from its wait on it.  (A worker that panicked is left aside here.)
C31_HostAlwaysTerminated ==
    [][\A g \in Gens :
          (host[g] /\ ~host'[g] /\ wpc'[g] # "panicked") => wpc[g] = "terminate"]_vars

\* C32: in the context check_ticket builds from an assignment, every player
\* has CHAT_LEN chat messages: the list the server sent when that list has
\* CHAT_LEN entries, the default list otherwise, the empty list included;
\* and no length of a chat-message list makes check_ticket fail.
C32_ChatNormalised ==
    /\ Len(chat_default) = CHAT_LEN
    /\ \A g \in Gens :
          Polled(g) =>
            /\ (wpc[g] = "set_connecting") =>
                  /\ Len(context[g].players) = Len(received(g).players)
                  /\ \A i \in DOMAIN context[g].players :
                        LET sent == received(g).players[i].chat_messages
                            kept == context[g].players[i].chat_messages
                        IN /\ Len(kept) = CHAT_LEN
                           /\ (Len(sent) = CHAT_LEN) => kept = sent
                           /\ (Len(sent) # CHAT_LEN) => kept = chat_default
            /\ (WellFormed(received(g).players) /\ UsedAddrsParse(received(g).players)) =>
                  \A checks \in BOOLEAN :
                      LET result == check_ticket(response[g][1], checks) IN
                      result.tag = "Ok" /\ result.val # None

\* The server sent the local player fifteen messages and the other player
\* sixteen of its own: the context holds the default list for the first and
\* the sixteen sent for the second.
C32_Witness ==
    /\ Polled(1) /\ wpc[1] = "set_connecting"
    /\ Len(received(1).players) = 2
    /\ Len(received(1).players[1].chat_messages) = CHAT_LEN - 1
    /\ context[1].players[1].chat_messages = chat_default
    /\ Len(received(1).players[2].chat_messages) = CHAT_LEN
    /\ received(1).players[2].chat_messages[1] = "one sec"
    /\ context[1].players[2].chat_messages = received(1).players[2].chat_messages

\* C33: OnceValue keeps the value of its first set: get returns nothing
\* exactly as long as no set was called; the first set, by whichever
\* thread, stores its value; every later set leaves the stored value as it
\* is and only logs the double set; and get returns the stored value and
\* changes nothing.
C33_FirstWriteWins ==
    [][LET r == got'[1]
           stored == errorCell[0]
       IN /\ (stored = None) <=> (cellLog[0] = {})
          /\ (r.fn = "set" /\ stored = None)
                => errorCell'[0] = r.val /\ double_set' = double_set
          /\ (r.fn = "set" /\ stored # None)
                => errorCell'[0] = stored /\ double_set'
          /\ (r.fn = "get")
                => r.val = stored /\ cellVars' = cellVars]_vars

\* The game thread set "v1", two worker threads then set "v2" and "v3",
\* and a get by the game thread returned "v1".
C33_Witness ==
    /\ errorCell[0] = Some("v1")
    /\ Write(0, "error", "v1") \in cellLog[0]
    /\ Write(1, "error", "v2") \in cellLog[0]
    /\ Write(2, "error", "v3") \in cellLog[0]
    /\ double_set
    /\ got = Got("get", 0, Some("v1"))

\* C34: no generation has its error-message cell and its match-context
\* cell both set, and no worker has written both an error message and a
\* match context.
C34_ErrorOrContext ==
    /\ \A b \in Bundles : ~(errorCell[b] # None /\ contextCell[b] # None)
    /\ \A g \in Gens :
          Spawned(g) =>
            ~(/\ \E b \in Bundles : Write(g, "error", "set") \in cellLog[b]
              /\ \E b \in Bundles : Write(g, "context", "set") \in cellLog[b])

\* One worker has ended with its error message set and no match context,
\* another with its match context set and no error message.
C34_Witness ==
    \E g, h \in Gens :
        /\ wpc[g] = "done" /\ wpc[h] = "done"
        /\ errorCell[cell(g)] # None /\ contextCell[cell(g)] = None
        /\ contextCell[cell(h)] # None /\ errorCell[cell(h)] = None

\* C35: a worker that has read Matchmaking from its state cell and is still
\* running holds a host; no worker is about to write "Missing host", and no
\* error cell holds that message.
C35_NoMissingHost ==
    /\ \A g \in Gens :
          /\ (observed[g] = Some("Matchmaking") /\ ~Exited(g)) => host[g]
          /\ pending[g] # Some("Missing host")
    /\ \A b \in Bundles : errorCell[b] # Some("Missing host")

\* Two workers have read Matchmaking and are about to poll, each with the
\* host its own submission returned.
C35_Witness ==
    \E g, h \in Gens :
        /\ g # h
        /\ wpc[g] = "check" /\ observed[g] = Some("Matchmaking") /\ host[g]
        /\ wpc[h] = "check" /\ observed[h] = Some("Matchmaking") /\ host[h]

\* C36: every state cell holds the i8 of Idle, Initializing, Matchmaking,
\* OpponentConnecting or ErrorEncountered; ConnectionSuccess was never
\* stored in a state cell, by a worker or by the coordinator, and no worker
\* has read it.
C36_NoConnectionSuccess ==
    /\ \A b \in Bundles :
          /\ stateCell[b] \in {to_i8(state) : state \in NetplayState \ {"ConnectionSuccess"}}
          /\ Read(b) # "ConnectionSuccess"
          /\ \A w \in cellLog[b] : w.field = "state" => w.val # "ConnectionSuccess"
    /\ \A g \in Gens : observed[g] # Some("ConnectionSuccess")

\* Three state cells hold Idle, the OpponentConnecting of a search whose
\* context is published, and ErrorEncountered; and Matchmaking was stored
\* in a state cell.
C36_Witness ==
    /\ \E b \in Bundles : Read(b) = "Idle"
    /\ \E b \in Bundles : Read(b) = "OpponentConnecting" /\ contextCell[b] # None
    /\ \E b \in Bundles : Read(b) = "ErrorEncountered"
    /\ \E b \in Bundles : \E w \in cellLog[b] : w.field = "state" /\ w.val = "Matchmaking"

\* C37: a worker whose match context is written has given up its host
\* before and has ended: the write of the context is the last thing the
\* worker does, and it comes after the host is taken and terminated.  A
\* worker that is about to write its context holds no host either.
C37_ContextAfterTeardown ==
    \A g \in Gens :
        Spawned(g) =>
            /\ (contextCell[cell(g)] # None) => (~host[g] /\ wpc[g] = "done")
            /\ (Write(g, "context", "set") \in cellLog[cell(g)])
                  => (~host[g] /\ wpc[g] = "done")
            /\ (wpc[g] \in {"reporting", "publish"}) => ~host[g]

\* A worker that held a host and was given an assignment has published its
\* context and ended without the host.
C37_Witness ==
    \E g \in Gens :
        /\ Spawned(g)
        /\ Assigned(g)
        /\ contextCell[cell(g)] = Some(context[g])
        /\ Write(g, "context", "set") \in cellLog[cell(g)]
        /\ wpc[g] = "done" /\ ~host[g]

\* C38: once a worker has stored OpponentConnecting in its state cell, it
\* comes to its end with its match-context cell holding the context built
\* from the assignment, whatever the caller does in between.
C38_AssignedPublishes ==
    \A g \in Gens :
        (Spawned(g) /\ Assigned(g))
            ~> (/\ Spawned(g)
                /\ wpc[g] = "done"
                /\ context[g].id # None
                /\ contextCell[cell(g)] = Some(context[g]))

\* The worker stored OpponentConnecting, the caller started a new search
\* and reset the worker's state cell to Idle, and the worker still ended
\* with the assignment's context published.
C38_Witness ==
    /\ Spawned(1) /\ Assigned(1)
    /\ Read(cell(1)) = "Idle" /\ mgr # cell(1)
    /\ wpc[1] = "done"
    /\ context[1].id # None
    /\ contextCell[cell(1)] = Some(context[1])

\* C39: a worker that has read Initializing and started its submission
\* comes to store Matchmaking or ErrorEncountered in its state cell: while
\* it is in submit_ticket, connect_to_mm has made at most
\* connect_max_attempts + 1 calls of host.service() and receive at most
\* max_attempts(SUBMIT_TIMEOUT_MS), and no worker is in its submission for
\* ever.
C39_SubmissionEnds ==
    /\ [](\A g \in Gens :
            wpc[g] \in {"connect", "submit"} =>
                /\ call.fn = "connect_to_mm" => polls <= connect_max_attempts + 1
                /\ call.fn = "receive" => polls <= max_attempts(SUBMIT_TIMEOUT_MS))
    /\ \A g \in Gens :
          (wpc[g] \in {"connect", "submit"})
              ~> (/\ Spawned(g)
                  /\ \/ Write(g, "state", "Matchmaking") \in cellLog[cell(g)]
                     \/ Write(g, "state", "ErrorEncountered") \in cellLog[cell(g)])

\* The connection was never made: connect_to_mm gave up after its last
\* attempt and the worker stored ErrorEncountered.
C39_Witness ==
    /\ Spawned(1)
    /\ call.fn = "connect_to_mm"
    /\ tries = connect_max_attempts
    /\ outcome = Some(RecvErr("UnableToConnect"))
    /\ errorCell[cell(1)] = Some("Failed to start connection to mm server")
    /\ Write(1, "state", "ErrorEncountered") \in cellLog[cell(1)]

\* C40: check_ticket on a decoded assignment returns a context or an error
\* whatever the ports of the players, in a build with overflow checks and
\* in one without, and no worker is aborted in its poll, its state cell
\* left at Matchmaking with its error and match-context cells unset.
C40_PortNeverUnderflows ==
    \A g \in Gens :
        Spawned(g) =>
            /\ Polled(g) =>
                  \A checks \in BOOLEAN :
                      check_ticket(response[g][1], checks).tag \in {"Ok", "Err"}
            /\ ~(/\ wpc[g] = "panicked"
                  /\ Read(cell(g)) = "Matchmaking"
                  /\ errorCell[cell(g)] = None
                  /\ contextCell[cell(g)] = None)

====
